---- MODULE Spec2Model ----
(***************************************************************************)
(* Model of the NBS sample-report handler front end:                       *)
(*   - the report-upload page (ReportHandling.tsx) with its filename       *)
(*     validator validateFiles,                                            *)
(*   - the review grid's reference-range classifier getColorForValue,      *)
(*   - the document analyser's result schema (types/analyzer.ts) and the   *)
(*     views that consume it (AnalysisResults, BatchDashboard).            *)
(* File names are sequences of one-character strings, so that the regular  *)
(* expression of the validator is modelled by what it matches.             *)
(***************************************************************************)
EXTENDS Integers, Sequences, FiniteSets, TLC

VARIABLES
    \* ---- ReportHandling page state (useState hooks) ----
    files,              \* [file1, file2, file3]: a file name, or NoFile
    isUploading,
    uploadProgress,
    uploadedReport,
    error,
    isValidating,
    validationResult,   \* Null, or [valid, kind, detail]
    request,            \* the uploadReport call in flight, or NoRequest
    submitted,          \* history: the uploadReport calls of the current or
                        \* last run of handleSubmit and how they settled, in
                        \* order
    uploadedBy,         \* the "Uploaded By" text
    members,            \* the saved members, in the order shown
    showMemberManagement,
    storage,            \* localStorage item report_handling_members, or Null
    nameChosen,         \* history: the user typed or selected a name since the
                        \* page was loaded
    \* ---- ReportReview classifier ----
    processedData,      \* the loaded ProcessedReportData (reference ranges)
    call,               \* the last getColorForValue invocation and its result
    repeated,           \* history: the last invocation read the same range and
                        \* value as the one before, for another compound or tier
    \* ---- document analyser ----
    doc,                \* the document handed to the single-document analyser
    analysisResult,     \* its AnalysisResult, or Null
    docs,               \* the ordered documents of a batch
    idx,                \* number of batch documents already processed
    acc,                \* the batch accumulator (buckets and counters)
    batchResult,        \* the BatchAnalysisResponse, or Null
    activeTab,          \* BatchDashboard's active tab
    \* ---- FileUploader component ----
    isDragging,
    selectedFile,       \* the File held by the component, or Null
    offered,            \* the last file dropped or picked and validateFile's
                        \* answer for it (what alert() showed), or Null
    passed,             \* the last file passed to onFileSelect, or Null
    \* ---- ReportReview grid and approval ----
    rowData,            \* the rows of the grid, one object per sample
    editedCells,        \* Set of cell keys `${id}-${field}`
    approving,
    showConfirmDialog,
    pending,            \* the call handleApprove is awaiting, or NoCall
    location,           \* the route shown
    lastAlert,          \* what the last alert() of handleApprove said, or Null
    trail,              \* history: the calls made by the current or last run
                        \* of handleApprove, in order
    lastEdit,           \* history: the last cell-editing-stopped event of the
                        \* report shown, or NoCall
    \* ---- App (health check) ----
    status,             \* the text shown after "Backend health:"
    health,             \* the GET /health request of the current page load
    loads,              \* history: number of page loads so far
    statusLog,          \* history: every status text shown, in order
    \* ---- ReportAnalyser page (with analysisResult and batchResult) ----
    isAnalyzing,
    analysisError,      \* the page's error text, or Null
    uploadedFileName,
    isBatchUpload,
    inflight,           \* the analysis requests awaited, oldest first
    sent,               \* history: the requests the last handleFileSelect sent
    settled,            \* history: what the awaited request of the last
                        \* handleFileSelect settled with, or Null
    \* ---- BatchDashboard (with activeTab) ----
    searchTerm,
    \* ---- BatchReportCard ----
    uploadedZipFile,    \* prop: the uploaded archive, or Null
    file_name,          \* prop: report.file_name
    isExpanded,
    isLoadingPDF,
    pdfError,
    viewing,            \* the handleViewPDF run awaiting extractPDFFromZip,
                        \* or NoCall
    blobs,              \* the blob URLs created, in order: the entry held,
                        \* how the URL was handed to the browser, the delay
                        \* of its pending timer (0: none), its age in ms and
                        \* the revokeObjectURL calls made on it
    mounted,            \* the card is rendered
    extracted           \* history: the last extractPDFFromZip call and what
                        \* it returned, or Null

memberVars == <<uploadedBy, members, showMemberManagement, storage, nameChosen>>
pageVars   == <<files, isUploading, uploadProgress, uploadedReport, error,
                isValidating, validationResult, request, submitted,
                memberVars>>
reviewVars == <<processedData, call, repeated>>
singleVars == <<doc, analysisResult>>
batchVars  == <<docs, idx, acc, batchResult, activeTab>>
uploaderVars == <<isDragging, selectedFile, offered, passed>>
gridVars   == <<rowData, editedCells, approving, showConfirmDialog, pending,
                location, lastAlert, trail, lastEdit>>
appVars    == <<status, health, loads, statusLog>>
analyserVars == <<isAnalyzing, analysisError, uploadedFileName, isBatchUpload,
                  inflight, sent, settled>>
dashVars   == <<searchTerm>>
cardVars   == <<uploadedZipFile, file_name, isExpanded, isLoadingPDF, pdfError,
                viewing, blobs, mounted, extracted>>
lateVars   == <<analyserVars, dashVars, cardVars>>
restVars   == <<uploaderVars, gridVars, appVars, lateVars>>
vars       == <<pageVars, reviewVars, singleVars, batchVars, restVars>>

Null == [tag |-> "null"]

\* Array.prototype.includes
includes(list, x) == \E i \in 1..Len(list) : list[i] = x

(***************************************************************************)
(* Characters and file names                                               *)
(***************************************************************************)
DigitChars == <<"0", "1", "2", "3", "4", "5", "6", "7", "8", "9">>

Digits == {DigitChars[i] : i \in 1..10}

Dig(n) == DigitChars[n + 1]

Pad2(n) == <<Dig(n \div 10), Dig(n % 10)>>

Pad4(n) == <<Dig(n \div 1000), Dig((n \div 100) % 10), Dig((n \div 10) % 10), Dig(n % 10)>>

\* the DDMMYYYY token of a date
DateToken(d, m, y) == Pad2(d) \o Pad2(m) \o Pad4(y)

Underscore == <<"_">>

DotTxt == <<".", "t", "x", "t">>

TypeChars(t) ==
    CASE t = "AA" -> <<"A", "A">>
      [] t = "AC" -> <<"A", "C">>
      [] t = "AC_EXT" -> <<"A", "C", "_", "E", "X", "T">>
      [] t = "AB" -> <<"A", "B">>
      [] t = "aa" -> <<"a", "a">>

FileTypes == {"AA", "AC", "AC_EXT"}

FileName(dateToken, t) == dateToken \o Underscore \o TypeChars(t) \o DotTxt

NoFile == <<>>

(***************************************************************************)
(* validateFiles (ReportHandling.tsx)                                      *)
(***************************************************************************)
\* the alternation (AA|AC|AC_EXT) in the order the regular expression tries it
TypeAlternatives == <<"AA", "AC", "AC_EXT">>

\* the tail of a name after the eight date characters
AfterDate(filename) == SubSeq(filename, 9, Len(filename))

\* the alternatives t for which "_" t ".txt" is exactly the tail of the name
MatchingAlternatives(filename) ==
    {i \in 1..Len(TypeAlternatives) :
        AfterDate(filename) = Underscore \o TypeChars(TypeAlternatives[i]) \o DotTxt}

\* filename.match(/^(\d{8})_(AA|AC|AC_EXT)\.txt$/)
RegexMatches(filename) ==
    /\ Len(filename) >= 8
    /\ \A i \in 1..8 : filename[i] \in Digits
    /\ MatchingAlternatives(filename) # {}

\* extractFileInfo: the captured groups {date: match[1], type: match[2]}
extractFileInfo(filename) ==
    LET first == CHOOSE i \in MatchingAlternatives(filename) :
                     \A j \in MatchingAlternatives(filename) : i <= j
    IN  [date |-> SubSeq(filename, 1, 8), type |-> TypeAlternatives[first]]

\* parseInt of a string of decimal digits
RECURSIVE parseInt(_)
parseInt(s) ==
    IF s = <<>> THEN 0
    ELSE LET last == s[Len(s)]
             v == CHOOSE k \in 0..9 : DigitChars[k + 1] = last
         IN  10 * parseInt(SubSeq(s, 1, Len(s) - 1)) + v

Invalid(kind, detail) == [valid |-> FALSE, kind |-> kind, detail |-> detail]

\* "Check all dates match"
DatesMatch(info1, info2, info3) ==
    info1.date = info2.date /\ info2.date = info3.date

\* "Check we have exactly one of each type"
TypesComplete(info1, info2, info3) ==
    LET types == {info1.type, info2.type, info3.type}
    IN  ~(Cardinality(types) # 3 \/ "AA" \notin types \/ "AC" \notin types
          \/ "AC_EXT" \notin types)

DayInRange(day) == ~(day < 1 \/ day > 31)

MonthInRange(month) == ~(month < 1 \/ month > 12)

YearInRangeLenient(year) == ~(year < 2000 \/ year > 2101)

YearInRange(year) == ~(year < 2000 \/ year > 2100)

\* the checks after the three names have matched, in the order of the code
CheckTripletTypesFirst(info1, info2, info3) ==
    LET day == parseInt(SubSeq(info1.date, 1, 2))
        month == parseInt(SubSeq(info1.date, 3, 4))
        year == parseInt(SubSeq(info1.date, 5, 8))
    IN  IF ~TypesComplete(info1, info2, info3)
        THEN Invalid("Missing or duplicate file types",
                     <<info1.type, info2.type, info3.type>>)
        ELSE IF ~DatesMatch(info1, info2, info3)
        THEN Invalid("Date mismatch", <<info1.type, info1.date, info2.type,
                                        info2.date, info3.type, info3.date>>)
        ELSE IF ~DayInRange(day) THEN Invalid("Invalid day", <<day>>)
        ELSE IF ~MonthInRange(month) THEN Invalid("Invalid month", <<month>>)
        ELSE IF ~YearInRange(year) THEN Invalid("Invalid year", <<year>>)
        ELSE [valid |-> TRUE, kind |-> "Files validated successfully",
              detail |-> <<SubSeq(info1.date, 1, 2), SubSeq(info1.date, 3, 4),
                           SubSeq(info1.date, 5, 8)>>]

CheckTriplet(info1, info2, info3) ==
    LET day == parseInt(SubSeq(info1.date, 1, 2))
        month == parseInt(SubSeq(info1.date, 3, 4))
        year == parseInt(SubSeq(info1.date, 5, 8))
    IN  IF ~DatesMatch(info1, info2, info3)
        THEN Invalid("Date mismatch", <<info1.type, info1.date, info2.type,
                                        info2.date, info3.type, info3.date>>)
        ELSE IF ~TypesComplete(info1, info2, info3)
        THEN Invalid("Missing or duplicate file types",
                     <<info1.type, info2.type, info3.type>>)
        ELSE IF ~DayInRange(day) THEN Invalid("Invalid day", <<day>>)
        ELSE IF ~MonthInRange(month) THEN Invalid("Invalid month", <<month>>)
        ELSE IF ~YearInRange(year) THEN Invalid("Invalid year", <<year>>)
        ELSE [valid |-> TRUE, kind |-> "Files validated successfully",
              detail |-> <<SubSeq(info1.date, 1, 2), SubSeq(info1.date, 3, 4),
                           SubSeq(info1.date, 5, 8)>>]

\* the validationResult that validateFiles sets for three names (a missing
\* file leaves it null); a throw of extractFileInfo is caught and becomes the
\* message
validateFiles(file1, file2, file3) ==
    IF file1 = NoFile \/ file2 = NoFile \/ file3 = NoFile THEN Null
    ELSE IF ~RegexMatches(file1) THEN Invalid("Invalid filename format", file1)
    ELSE IF ~RegexMatches(file2) THEN Invalid("Invalid filename format", file2)
    ELSE IF ~RegexMatches(file3) THEN Invalid("Invalid filename format", file3)
    ELSE CheckTriplet(extractFileInfo(file1), extractFileInfo(file2),
                      extractFileInfo(file3))

(***************************************************************************)
(* File names offered to the file inputs                                   *)
(***************************************************************************)
\* <<day, month, year>> of the date tokens tried: in range, on the limits of
\* the ranges, and out of range in one or several components
SampleDates ==
    { <<1, 7, 2024>>, <<2, 7, 2024>>, <<31, 12, 2100>>, <<1, 1, 2000>>,
      <<0, 7, 2024>>, <<32, 7, 2024>>, <<1, 0, 2024>>, <<1, 13, 2024>>,
      <<1, 7, 1999>>, <<1, 7, 2101>>, <<32, 13, 2024>>, <<1, 13, 1999>>,
      <<32, 7, 2101>> }

GrammaticalNames ==
    {FileName(DateToken(d[1], d[2], d[3]), t) : d \in SampleDates, t \in FileTypes}

\* 2024-07-01_AA.txt
IsoName ==
    <<"2", "0", "2", "4", "-", "0", "7", "-", "0", "1">> \o Underscore
        \o TypeChars("AA") \o DotTxt

MalformedNames ==
    { IsoName,
      FileName(DateToken(1, 7, 2024), "AB"),
      FileName(DateToken(1, 7, 2024), "aa"),
      FileName(SubSeq(DateToken(1, 7, 2024), 1, 7), "AC"),
      FileName(DateToken(1, 7, 2024), "AC_EXT") \o DotTxt,
      DateToken(1, 7, 2024) \o TypeChars("AA") \o DotTxt }

AllNames == GrammaticalNames \cup MalformedNames

\* the names the upload page is exercised with
PageNames ==
    { FileName(DateToken(1, 7, 2024), "AA"),
      FileName(DateToken(1, 7, 2024), "AC"),
      FileName(DateToken(1, 7, 2024), "AC_EXT"),
      FileName(DateToken(2, 7, 2024), "AC"),
      FileName(DateToken(32, 7, 2024), "AA"),
      IsoName }

FileKeys == {"file1", "file2", "file3"}

NoFiles == [k \in FileKeys |-> NoFile]

NoRequest == [tag |-> "none"]

(***************************************************************************)
(* ReportHandling page: handlers                                           *)
(***************************************************************************)
\* handleFileChange(fileKey, event): event.target.files?.[0] || null
handleFileChange(fileKey, file) ==
    LET newFiles == [files EXCEPT ![fileKey] = file]
    IN  /\ files' = newFiles
        /\ error' = Null
        /\ uploadedReport' = Null
        \* validateFiles runs to completion inside the handler: isValidating
        \* is set and cleared again before the next render
        /\ isValidating' = FALSE
        /\ validationResult' =
               validateFiles(newFiles.file1, newFiles.file2, newFiles.file3)
        /\ UNCHANGED <<isUploading, uploadProgress, request, submitted,
                       memberVars>>

\* the submit button without the validation part of its disabled condition
SubmitEnabledUnvalidated == ~(isUploading \/ isValidating)

\* the submit button is enabled:
\* disabled={isUploading || isValidating || !validationResult?.valid}
SubmitEnabled ==
    ~(isUploading \/ isValidating
      \/ ~(validationResult # Null /\ validationResult.valid))

\* JSON.stringify / JSON.parse of a list of names
stringify(list) == [json |-> list]

parse(item) == item.json

\* the save effect, run after a render in which members changed:
\* if (members.length > 0) localStorage.setItem(...)
saveEffect(newMembers) ==
    storage' = (IF Len(newMembers) > 0 THEN stringify(newMembers) ELSE storage)

\* FormData.append
Field(name, kind, value) == [name |-> name, kind |-> kind, value |-> value]

\* the form without the uploader field
uploadReportWithoutUploader(file1, file2, file3, by) ==
    << Field("file1", "file", file1),
       Field("file2", "file", file2),
       Field("file3", "file", file3) >>

\* uploadReport(file1, file2, file3, uploadedBy): the multipart form it posts
uploadReport(file1, file2, file3, by) ==
    << Field("uploaded_by", "string", by),
       Field("file1", "file", file1),
       Field("file2", "file", file2),
       Field("file3", "file", file3) >>

\* handleSubmit up to the await of uploadReport; the handler keeps the
\* uploadedBy and members of the render it was created in
handleSubmit ==
    /\ SubmitEnabled
    /\ IF files.file1 = NoFile \/ files.file2 = NoFile \/ files.file3 = NoFile
       THEN /\ error' = [tag |-> "Please select all 3 files"]
            /\ uploadedReport' = Null
            /\ submitted' = <<>>
            /\ UNCHANGED <<files, isUploading, uploadProgress, isValidating,
                           validationResult, request>>
       ELSE /\ error' = Null
            /\ uploadedReport' = Null
            /\ isUploading' = TRUE
            /\ uploadProgress' = "Uploading files..."
            /\ request' = [tag |-> "uploadReport", file1 |-> files.file1,
                           file2 |-> files.file2, file3 |-> files.file3,
                           formData |-> uploadReport(files.file1, files.file2,
                                                     files.file3, uploadedBy),
                           uploadedBy |-> uploadedBy, members |-> members]
            /\ submitted' = <<"uploadReport">>
            /\ UNCHANGED <<files, isValidating, validationResult>>
    /\ UNCHANGED memberVars

\* if (uploadedBy && uploadedBy !== 'anonymous' && !members.includes(uploadedBy)),
\* on the uploadedBy and members the handler kept
SavesName(req) ==
    /\ req.uploadedBy # ""
    /\ req.uploadedBy # "anonymous"
    /\ ~includes(req.members, req.uploadedBy)

\* handleSubmit after uploadReport resolved
uploadResolved ==
    /\ request # NoRequest
    /\ uploadProgress' = "Processing complete!"
    /\ uploadedReport' = [tag |-> "report"]
    /\ IF SavesName(request)
       THEN /\ members' = Append(request.members, request.uploadedBy)
            /\ saveEffect(members')
       ELSE UNCHANGED <<members, storage>>
    /\ files' = NoFiles
    /\ isUploading' = FALSE
    /\ request' = NoRequest
    /\ submitted' = Append(submitted, "resolved")
    /\ UNCHANGED <<error, isValidating, validationResult>>
    /\ UNCHANGED <<uploadedBy, showMemberManagement, nameChosen>>

\* err.response?.data?.detail || 'Failed to upload and process files'
errorMsg(err) ==
    IF err.detail = Null \/ err.detail = [tag |-> ""]
        THEN [tag |-> "Failed to upload and process files"]
        ELSE err.detail

uploadRejectedClearingFiles(err) ==
    /\ request # NoRequest
    /\ error' = errorMsg(err)
    /\ uploadProgress' = ""
    /\ files' = NoFiles
    /\ isUploading' = FALSE
    /\ request' = NoRequest
    /\ submitted' = Append(submitted, "rejected")
    /\ UNCHANGED <<uploadedReport, isValidating, validationResult>>
    /\ UNCHANGED memberVars

\* handleSubmit after uploadReport rejected: catch, finally
uploadRejected(err) ==
    /\ request # NoRequest
    /\ error' = errorMsg(err)
    /\ uploadProgress' = ""
    /\ isUploading' = FALSE
    /\ request' = NoRequest
    /\ submitted' = Append(submitted, "rejected")
    /\ UNCHANGED <<files, uploadedReport, isValidating, validationResult>>
    /\ UNCHANGED memberVars

\* what uploadReport rejects with: no response (network), a response with
\* an empty detail, a response with the backend's detail
UploadErrors ==
    {[detail |-> Null], [detail |-> [tag |-> ""]],
     [detail |-> [tag |-> "Files must have the same date"]]}

\* onChange of the "Uploaded By" input: setUploadedBy(e.target.value)
typeUploadedBy(text) ==
    /\ uploadedBy' = text
    /\ nameChosen' = TRUE
    /\ UNCHANGED <<members, showMemberManagement, storage>>
    /\ UNCHANGED <<files, isUploading, uploadProgress, uploadedReport, error,
                   isValidating, validationResult, request, submitted>>

\* the Manage button, rendered while members.length > 0
toggleMemberManagement ==
    /\ Len(members) > 0
    /\ showMemberManagement' = ~showMemberManagement
    /\ UNCHANGED <<uploadedBy, members, storage, nameChosen>>
    /\ UNCHANGED <<files, isUploading, uploadProgress, uploadedReport, error,
                   isValidating, validationResult, request, submitted>>

\* the management panel is rendered
PanelShown == showMemberManagement /\ Len(members) > 0

\* click on a member of the panel: setUploadedBy(member)
selectMember(member) ==
    /\ PanelShown /\ includes(members, member)
    /\ uploadedBy' = member
    /\ nameChosen' = TRUE
    /\ UNCHANGED <<members, showMemberManagement, storage>>
    /\ UNCHANGED <<files, isUploading, uploadProgress, uploadedReport, error,
                   isValidating, validationResult, request, submitted>>

\* Array.prototype.filter(m => m !== memberToRemove)
RECURSIVE filterOut(_, _)
filterOut(list, memberToRemove) ==
    IF list = <<>> THEN <<>>
    ELSE IF Head(list) = memberToRemove
    THEN filterOut(Tail(list), memberToRemove)
    ELSE <<Head(list)>> \o filterOut(Tail(list), memberToRemove)

handleRemoveMember(memberToRemove) ==
    /\ PanelShown /\ includes(members, memberToRemove)
    /\ members' = filterOut(members, memberToRemove)
    /\ saveEffect(members')
    /\ uploadedBy' = (IF uploadedBy = memberToRemove THEN "anonymous"
                      ELSE uploadedBy)
    /\ UNCHANGED <<showMemberManagement, nameChosen>>
    /\ UNCHANGED <<files, isUploading, uploadProgress, uploadedReport, error,
                   isValidating, validationResult, request, submitted>>

\* the page is loaded again: every hook starts from its initial value, a
\* request in flight is dropped with the old page, and the load effect reads
\* the stored list: if (savedMembers) setMembers(JSON.parse(savedMembers))
reloadPage ==
    /\ files' = NoFiles
    /\ isUploading' = FALSE
    /\ uploadProgress' = ""
    /\ uploadedReport' = Null
    /\ error' = Null
    /\ isValidating' = FALSE
    /\ validationResult' = Null
    /\ request' = NoRequest
    /\ submitted' = <<>>
    /\ uploadedBy' = "anonymous"
    /\ showMemberManagement' = FALSE
    /\ nameChosen' = FALSE
    /\ members' = (IF storage # Null THEN parse(storage) ELSE <<>>)
    /\ saveEffect(members')

\* names typed into the "Uploaded By" input; the input can be emptied
TypedNames == {"", "asha", "ben"}

(***************************************************************************)
(* ReportReview: reference ranges and getColorForValue                     *)
(***************************************************************************)
MaxBound == 3

MaxValue == 5

Undefined == [tag |-> "undefined"]

Num(n) == [tag |-> "number", n |-> n]

\* [min, max] pairs of a reference table: 0 <= min <= max
RangePairs == {<<lo, hi>> : lo \in 0..MaxBound, hi \in 0..MaxBound} \ 
              {p \in (0..MaxBound) \X (0..MaxBound) : p[1] > p[2]}

Compounds == {"Ala", "C0"}

\* a cell value: a number, null or undefined
CellValues == {Num(n) : n \in (0 - 1)..MaxValue} \cup {Null, Undefined}

Widen(r) == <<r[1], r[2] + 1>>

\* a ProcessedReportData: its reference_ranges, one Record<string, [min, max]>
\* per tier (a compound outside the DOMAIN has no range); ratios may be missing
ProcessedReport(r, hasRatios) ==
    [tag |-> "processedData",
     compounds |-> <<"Ala", "C0">>,
     reference_ranges |->
        [patient   |-> [c \in {"Ala", "C0"} |-> IF c = "Ala" THEN r ELSE Widen(r)],
         control_1 |-> [c \in {"Ala"} |-> Widen(r)],
         control_2 |-> [c \in {"Ala", "C0"} |-> r],
         ratios    |-> IF hasRatios THEN [c \in {"Ala"} |-> r] ELSE Undefined]]

ProcessedReports == {ProcessedReport(r, h) : r \in RangePairs, h \in BOOLEAN}

\* the undefined entry of a ranges Record
NoRanges == <<>>

\* table[compound] on a Record: undefined when the key is missing
Lookup(table, compound) ==
    IF compound \in DOMAIN table THEN table[compound] ELSE NoRanges

\* the row's control tier is looked at before the ratio flag
SelectRangesRowTierFirst(data, compound, isControl1, isControl2, isRatio) ==
    IF isControl1 THEN Lookup(data.reference_ranges.control_1, compound)
    ELSE IF isControl2 THEN Lookup(data.reference_ranges.control_2, compound)
    ELSE IF isRatio
    THEN IF data.reference_ranges.ratios = Undefined THEN NoRanges
         ELSE Lookup(data.reference_ranges.ratios, compound)
    ELSE Lookup(data.reference_ranges.patient, compound)

\* the `ranges` that getColorForValue selects: one tier's entry for the compound
SelectRanges(data, compound, isControl1, isControl2, isRatio) ==
    IF isRatio
    THEN IF data.reference_ranges.ratios = Undefined THEN NoRanges
         ELSE Lookup(data.reference_ranges.ratios, compound)
    ELSE IF isControl1 THEN Lookup(data.reference_ranges.control_1, compound)
    ELSE IF isControl2 THEN Lookup(data.reference_ranges.control_2, compound)
    ELSE Lookup(data.reference_ranges.patient, compound)

\* value < min * 0.5, over the integers
BelowLowerCritical(value, min) == 2 * value < min

\* value > max * 1.5, over the integers
AboveUpperCritical(value, max) == 2 * value > 3 * max

\* lines 304-316: the color of a present value against [min, max]
ColorInRangeExclusive(value, min, max) ==
    IF value > min /\ value < max THEN "green"
    ELSE IF BelowLowerCritical(value, min) \/ AboveUpperCritical(value, max)
         THEN "red"
         ELSE "yellow"

ColorInRangeLooseCritical(value, min, max) ==
    IF value >= min /\ value <= max THEN "green"
    ELSE IF value < min - 1 \/ value > max + 1
         THEN "red"
         ELSE "yellow"

ColorInRange(value, min, max) ==
    IF value >= min /\ value <= max THEN "green"
    ELSE IF BelowLowerCritical(value, min) \/ AboveUpperCritical(value, max)
         THEN "red"
         ELSE "yellow"

getColorForValueDefaultRange(data, compound, value, isControl1, isControl2, isRatio) ==
    IF data = Null \/ value = Null \/ value = Undefined THEN "none"
    ELSE LET ranges == SelectRanges(data, compound, isControl1, isControl2, isRatio)
         IN  IF ranges = NoRanges THEN ColorInRange(value.n, 0, 0)
             ELSE ColorInRange(value.n, ranges[1], ranges[2])

getColorForValueTierFactor(data, compound, value, isControl1, isControl2, isRatio) ==
    IF data = Null \/ value = Null \/ value = Undefined THEN "none"
    ELSE LET ranges == SelectRanges(data, compound, isControl1, isControl2, isRatio)
         IN  IF ranges = NoRanges THEN "none"
             ELSE IF isControl1 /\ ~isRatio
                  THEN ColorInRangeLooseCritical(value.n, ranges[1], ranges[2])
                  ELSE ColorInRange(value.n, ranges[1], ranges[2])

\* getColorForValue(compound, value, isControl1, isControl2, isRatio) of a
\* page whose processedData is data
getColorForValue(data, compound, value, isControl1, isControl2, isRatio) ==
    IF data = Null \/ value = Null \/ value = Undefined THEN "none"
    ELSE LET ranges == SelectRanges(data, compound, isControl1, isControl2, isRatio)
         IN  IF ranges = NoRanges THEN "none"
             ELSE ColorInRange(value.n, ranges[1], ranges[2])

NoCall == [tag |-> "none"]

\* fetchData resolved: setProcessedData(processedReportData)
fetchData(data) ==
    /\ processedData = Null
    /\ processedData' = data
    /\ UNCHANGED <<call, repeated>>

\* one invocation of getColorForValue; `data` is the processedData the
\* callback was created with and `ranges` records the entry it read
classify(compound, value, isControl1, isControl2, isRatio) ==
    /\ call' = [tag |-> "call", compound |-> compound, value |-> value,
                isControl1 |-> isControl1, isControl2 |-> isControl2,
                isRatio |-> isRatio,
                data |-> processedData,
                ranges |-> IF processedData = Null THEN NoRanges
                           ELSE SelectRanges(processedData, compound,
                                             isControl1, isControl2, isRatio),
                color |-> getColorForValue(processedData, compound, value,
                                           isControl1, isControl2, isRatio)]
    /\ repeated' = /\ call # NoCall
                   /\ call'.ranges = call.ranges
                   /\ call'.value = call.value
                   /\ \/ call'.compound # call.compound
                      \/ call'.isControl1 # call.isControl1
                      \/ call'.isControl2 # call.isControl2
                      \/ call'.isRatio # call.isRatio
    /\ UNCHANGED processedData

(***************************************************************************)
(* Document analyser (backend service; its response schema is              *)
(* types/analyzer.ts)                                                      *)
(***************************************************************************)
MaxTests == 3

MaxDocs == 3

Range(lower, upper) == [lower |-> lower, upper |-> upper]

\* classify(compound, tier, value) on the looked-up range
Verdict(range, value) ==
    IF value = Null \/ value = Undefined THEN "not evaluated"
    ELSE IF range = Undefined THEN "no reference available"
    ELSE IF range.lower <= value.n /\ value.n <= range.upper THEN "normal"
    ELSE IF 2 * value.n < range.lower \/ 2 * value.n > 3 * range.upper THEN "critical"
    ELSE "out-of-range"

IsAbnormal(test) == Verdict(test.range, test.value) \in {"out-of-range", "critical"}

IsNormal(test) == Verdict(test.range, test.value) = "normal"

Test(analyte, value, range) == [analyte |-> analyte, value |-> value, range |-> range]

\* measurements a document may carry: normal, on the bound, out of range,
\* critical, without reference range, without value
SampleTests ==
    { Test("Ala", Num(2), Range(1, 3)), Test("Ala", Num(3), Range(1, 3)),
      Test("C0", Num(4), Range(1, 3)), Test("C0", Num(5), Range(1, 3)),
      Test("TSH", Num(2), Undefined), Test("C2", Null, Range(1, 3)) }

RECURSIVE SeqsUpTo(_, _)
SeqsUpTo(S, n) ==
    IF n = 0 THEN {<<>>}
    ELSE LET shorter == SeqsUpTo(S, n - 1)
         IN  shorter \cup {Append(q, x) : q \in shorter, x \in S}

\* a document: its path, whether its fields can be extracted, its measurements
Document(path, readable, tests) ==
    [path |-> path, readable |-> readable, tests |-> tests]

Abnormality(test) ==
    [analyte |-> test.analyte, value |-> test.value, reference_range |-> test.range,
     reason |-> Verdict(test.range, test.value)]

RECURSIVE MapAbnormality(_)
MapAbnormality(tests) ==
    IF tests = <<>> THEN <<>>
    ELSE <<Abnormality(Head(tests))>> \o MapAbnormality(Tail(tests))

\* the summary status of a document with the given abnormalities
SummaryStatus(abnormalities) ==
    IF Len(abnormalities) > 0 THEN "abnormal" ELSE "normal"

\* single-document contract: the AnalysisResult of a readable document
analyzeDocument(d) ==
    LET abnormalities == MapAbnormality(SelectSeq(d.tests, IsAbnormal))
    IN  [file_name |-> d.path,
         abnormalities |-> abnormalities,
         summary |-> [total_tests |-> Len(d.tests),
                      normal_count |-> Len(SelectSeq(d.tests, IsNormal)),
                      abnormal_count |-> Len(abnormalities),
                      status |-> SummaryStatus(abnormalities)]]

\* the SingleAnalysisResponse of the analyze-pdf endpoint
analyzePdfResponse(d) ==
    IF d.readable
    THEN [success |-> TRUE, result |-> analyzeDocument(d), error |-> Undefined]
    ELSE [success |-> FALSE, result |-> Undefined, error |-> "extraction failed"]

EmptyBatch ==
    [successful |-> 0, failed |-> 0, normal_reports |-> <<>>,
     abnormal_reports |-> <<>>, failed_reports |-> <<>>]

\* batch contract, one document: a failure is caught and recorded, a result
\* is bucketed by its status
batchStep(a, d) ==
    IF ~d.readable
    THEN [a EXCEPT !.failed = @ + 1,
                   !.failed_reports = Append(@, [path |-> d.path,
                                                 error |-> "extraction failed"])]
    ELSE LET r == analyzeDocument(d)
         IN  IF r.summary.status = "abnormal"
             THEN [a EXCEPT !.successful = @ + 1,
                            !.abnormal_reports = Append(@, r)]
             ELSE [a EXCEPT !.successful = @ + 1,
                            !.normal_reports = Append(@, r)]

\* the BatchAnalysisResponse built from the accumulator of n documents
batchResponse(a, n) ==
    [success |-> TRUE, total |-> n, successful |-> a.successful,
     failed |-> a.failed, normal |-> Len(a.normal_reports),
     abnormal |-> Len(a.abnormal_reports),
     normal_reports |-> a.normal_reports,
     abnormal_reports |-> a.abnormal_reports,
     failed_reports |-> a.failed_reports]

RECURSIVE runBatch(_, _)
\* the accumulator after the documents ds, starting from a
runBatch(a, ds) ==
    IF ds = <<>> THEN a ELSE runBatch(batchStep(a, Head(ds)), Tail(ds))

(***************************************************************************)
(* Views of the analyser results                                           *)
(***************************************************************************)
\* AnalysisResults: the "All Clear!" panel replaces the abnormality table
AllClearShownAlways(result) == TRUE

AllClearShown(result) == ~(Len(result.abnormalities) > 0)

\* AnalysisResults: the status card shows the NORMAL icon
NormalIconShown(result) == result.summary.status = "normal"

\* BatchDashboard: allReports
allReportsAbnormalTwice(b) == b.abnormal_reports \o b.abnormal_reports

allReports(b) == b.abnormal_reports \o b.normal_reports

\* BatchDashboard: the Unprocessed Reports section
unprocessedShownFirstOnly(b, tab) ==
    IF tab = "failed" /\ Len(b.failed_reports) > 0
    THEN <<b.failed_reports[1]>> ELSE <<>>

unprocessedShown(b, tab) ==
    IF tab = "failed" /\ Len(b.failed_reports) > 0 THEN b.failed_reports ELSE <<>>

\* BatchDashboard: the tabs that have a button (Unprocessed only with failures)
TabsOffered(b) ==
    {"abnormal", "normal", "all"} \cup (IF b.failed > 0 THEN {"failed"} ELSE {})

(***************************************************************************)
(* Analyser inputs and steps                                               *)
(***************************************************************************)
SingleDocs ==
    {Document("report.pdf", readable, tests) :
        readable \in BOOLEAN, tests \in SeqsUpTo(SampleTests, MaxTests)}

\* the kinds of archive entry: <<readable, tests>>
EntryKinds ==
    { <<TRUE, <<Test("Ala", Num(2), Range(1, 3))>>>>,
      <<TRUE, <<Test("Ala", Num(2), Range(1, 3)), Test("C0", Num(4), Range(1, 3))>>>>,
      <<TRUE, <<Test("C0", Num(5), Range(1, 3))>>>>,
      <<TRUE, <<>>>>,
      <<FALSE, <<>>>> }

\* the documents of an archive: entry i has path i
Archive(kinds) ==
    [i \in 1..Len(kinds) |-> Document(i, kinds[i][1], kinds[i][2])]

Archives == {Archive(kinds) : kinds \in SeqsUpTo(EntryKinds, MaxDocs)}

\* ReportAnalyser.handleFileSelect, PDF branch, after analyzeSinglePDF resolved
analyzeSingle ==
    LET response == analyzePdfResponse(doc)
    IN  /\ analysisResult' =
               IF response.success /\ response.result # Undefined
               THEN response.result ELSE Null
        /\ UNCHANGED doc

\* the batch loop handles the next document of the archive
processNext ==
    /\ idx < Len(docs)
    /\ batchResult = Null
    /\ acc' = batchStep(acc, docs[idx + 1])
    /\ idx' = idx + 1
    /\ UNCHANGED <<docs, batchResult, activeTab>>

\* the loop is over: the response reaches the page (setBatchResult) and the
\* dashboard mounts on its default tab
finishBatch ==
    /\ idx = Len(docs)
    /\ batchResult = Null
    /\ batchResult' = batchResponse(acc, Len(docs))
    /\ activeTab' = "abnormal"
    /\ UNCHANGED <<docs, idx, acc>>

\* BatchDashboard: a sidebar button is clicked
setActiveTab(tab) ==
    /\ batchResult # Null
    /\ tab \in TabsOffered(batchResult)
    /\ activeTab' = tab
    /\ UNCHANGED <<docs, idx, acc, batchResult>>

(***************************************************************************)
(* FileUploader component (components/analyzer/FileUploader.tsx), with the *)
(* props the analyser page gives it                                        *)
(***************************************************************************)
Chars(word) ==
    CASE word = ".pdf,.zip"  -> <<".", "p", "d", "f", ",", ".", "z", "i", "p">>
      [] word = "pdf"        -> <<"p", "d", "f">>
      [] word = "zip"        -> <<"z", "i", "p">>
      [] word = "a.pdf"      -> <<"a", ".", "p", "d", "f">>
      [] word = "A.PDF"      -> <<"A", ".", "P", "D", "F">>
      [] word = "a.zip"      -> <<"a", ".", "z", "i", "p">>
      [] word = "a.txt"      -> <<"a", ".", "t", "x", "t">>
      [] word = "a.pdf.exe"  -> <<"a", ".", "p", "d", "f", ".", "e", "x", "e">>
      [] word = "a.b.Zip"    -> <<"a", ".", "b", ".", "Z", "i", "p">>
      [] word = "C5"         -> <<"C", "5">>
      [] word = "C5-OH"      -> <<"C", "5", "-", "O", "H">>
      [] word = "C3/C2"      -> <<"C", "3", "/", "C", "2">>
      [] word = "2"          -> <<"2">>
      [] word = "9"          -> <<"9">>
      [] word = "2abc"       -> <<"2", "a", "b", "c">>
      [] word = "abc"        -> <<"a", "b", "c">>
      [] word = "b.pdf"      -> <<"b", ".", "p", "d", "f">>
      [] word = "Ben"        -> <<"B", "e", "n">>
      [] word = "Asha"       -> <<"A", "s", "h", "a">>
      [] word = "ben"        -> <<"b", "e", "n">>
      [] word = "PDF"        -> <<"P", "D", "F">>
      [] word = "a"          -> <<"a">>
      [] word = "zz"         -> <<"z", "z">>
      [] word = ".pdf"       -> <<".", "p", "d", "f">>
      [] word = ".zip"       -> <<".", "z", "i", "p">>
      [] word = "d/a.pdf"    -> <<"d", "/", "a", ".", "p", "d", "f">>
      [] word = "d\\a.pdf"   -> <<"d", "\\", "a", ".", "p", "d", "f">>
      [] word = "D\\a.pdf"   -> <<"D", "\\", "a", ".", "p", "d", "f">>
      [] word = "d/"         -> <<"d", "/">>
      [] word = ""           -> <<>>

\* String.prototype.toLowerCase on the letters that occur
LowerChar(c) ==
    CASE c = "A" -> "a"
      [] c = "B" -> "b"
      [] c = "D" -> "d"
      [] c = "F" -> "f"
      [] c = "I" -> "i"
      [] c = "P" -> "p"
      [] c = "Z" -> "z"
      [] OTHER   -> c

toLowerCase(s) == [i \in 1..Len(s) |-> LowerChar(s[i])]

\* position of the first sep in s, 0 when there is none
IndexOf(s, sep) ==
    IF \E i \in 1..Len(s) : s[i] = sep
    THEN CHOOSE i \in 1..Len(s) : s[i] = sep /\ \A j \in 1..(i - 1) : s[j] # sep
    ELSE 0

\* String.prototype.split(sep): the pieces between the separators; a string
\* without the separator is its own single piece
RECURSIVE split(_, _)
split(s, sep) ==
    IF IndexOf(s, sep) = 0
    THEN <<s>>
    ELSE <<SubSeq(s, 1, IndexOf(s, sep) - 1)>>
         \o split(SubSeq(s, IndexOf(s, sep) + 1, Len(s)), sep)

\* Array.prototype.pop on a non-empty array: its last element
pop(pieces) == pieces[Len(pieces)]

\* String.prototype.trim
RECURSIVE trim(_)
trim(s) ==
    IF s # <<>> /\ Head(s) = " " THEN trim(Tail(s))
    ELSE IF s # <<>> /\ s[Len(s)] = " " THEN trim(SubSeq(s, 1, Len(s) - 1))
    ELSE s

\* String.prototype.replace(sep, ''): the first occurrence is removed
replaceFirst(s, sep) ==
    IF IndexOf(s, sep) = 0
    THEN s
    ELSE SubSeq(s, 1, IndexOf(s, sep) - 1) \o SubSeq(s, IndexOf(s, sep) + 1, Len(s))


PdfLimitMB == 50

BytesPerMB == 1048576

\* props of ReportAnalyser's <FileUploader>
acceptedTypes == Chars(".pdf,.zip")

maxSizeMB == 200

showUploadButton == TRUE

acceptedExtensions ==
    [i \in 1..Len(split(acceptedTypes, ",")) |->
        replaceFirst(trim(split(acceptedTypes, ",")[i]), ".")]

disabled == FALSE

File(name, size) == [name |-> name, size |-> size]

fileExtension(file) == pop(split(toLowerCase(file.name), "."))

actualLimit(file) ==
    IF fileExtension(file) = Chars("pdf") THEN PdfLimitMB ELSE maxSizeMB

\* fileSizeMB > actualLimit, with fileSizeMB = size / (1024 * 1024): the
\* division by a power of two is exact, so the comparison is made on bytes
validateFile(file) ==
    IF ~includes(acceptedExtensions, fileExtension(file))
    THEN [tag |-> "Invalid file type"]
    ELSE IF file.size > actualLimit(file) * BytesPerMB
    THEN [tag |-> "File size exceeds limit", limit |-> actualLimit(file)]
    ELSE Null

handleDragOver ==
    /\ isDragging' = (IF ~disabled THEN TRUE ELSE isDragging)
    /\ UNCHANGED <<selectedFile, offered, passed>>

handleDragLeave ==
    /\ isDragging' = FALSE
    /\ UNCHANGED <<selectedFile, offered, passed>>

\* the part handleDrop and the input's change handler share: validate, alert
\* and return, or select (and hand over when there is no upload button)
takeFile(file) ==
    /\ offered' = [file |-> file, error |-> validateFile(file)]
    /\ IF offered'.error # Null
       THEN UNCHANGED <<selectedFile, passed>>
       ELSE /\ selectedFile' = file
            /\ passed' = (IF ~showUploadButton THEN file ELSE passed)

handleDrop(file) ==
    /\ isDragging' = FALSE
    /\ IF disabled
       THEN UNCHANGED <<selectedFile, offered, passed>>
       ELSE takeFile(file)

uploaderFileChange(file) ==
    /\ takeFile(file)
    /\ UNCHANGED isDragging

handleUploadClick ==
    /\ showUploadButton /\ selectedFile # Null
    /\ passed' = (IF ~disabled THEN selectedFile ELSE passed)
    /\ UNCHANGED <<isDragging, selectedFile, offered>>

handleClearFile ==
    /\ showUploadButton /\ selectedFile # Null
    /\ selectedFile' = Null
    /\ UNCHANGED <<isDragging, offered, passed>>

\* files offered to the uploader: names around the two accepted extensions,
\* sizes at and just over the two caps
UploadNames ==
    {Chars(w) : w \in {"a.pdf", "A.PDF", "a.zip", "a.txt", "a.pdf.exe",
                       "a.b.Zip", "zip"}}

UploadSizes ==
    {PdfLimitMB * BytesPerMB, PdfLimitMB * BytesPerMB + 1,
     maxSizeMB * BytesPerMB, maxSizeMB * BytesPerMB + 1}

UploadFiles == {File(n, s) : n \in UploadNames, s \in UploadSizes}

(***************************************************************************)
(* ReportReview: the editable grid and the approval (pages/ReportReview)   *)
(***************************************************************************)
\* a string value, as a cell editor hands it over
Text(word) == [tag |-> "string", s |-> Chars(word)]

NaN == [tag |-> "NaN"]

SeqRange(list) == {list[i] : i \in 1..Len(list)}

\* the longest prefix of s made of digits
RECURSIVE DigitPrefix(_)
DigitPrefix(s) ==
    IF s = <<>> \/ Head(s) \notin Digits THEN <<>>
    ELSE <<Head(s)>> \o DigitPrefix(Tail(s))

\* parseFloat on a number, on null / undefined, and on a string of the kind
\* offered here (digits followed by anything): the leading number, or NaN
parseFloat(x) ==
    IF x.tag = "number" THEN x
    ELSE IF x.tag = "string" /\ DigitPrefix(x.s) # <<>>
    THEN Num(parseInt(DigitPrefix(x.s)))
    ELSE NaN

CompoundValue(value, color) == [value |-> value, color |-> color]

\* one ProcessedDataRow; values may lack a compound (Record<string, ...>)
DataRow(name, c1, c2, values) ==
    [sample_name |-> name, is_control_1 |-> c1, is_control_2 |-> c2,
     values |-> values]

\* a ProcessedReportData.  Report "A" has one control-1 row and two
\* compounds, one with a hyphen in its name; report "B" has a control-2 row
\* and a patient row, and one column, a ratio, which has a range in the ratio
\* table only and no value in the patient row.
GridReport(kind) ==
    [tag |-> "processedData",
     date_code |-> kind,
     compounds |-> IF kind = "A" THEN <<"C5", "C5-OH">> ELSE <<"C3/C2">>,
     reference_ranges |->
        [patient   |-> ("C5" :> <<1, 3>> @@ "C5-OH" :> <<2, 4>>),
         control_1 |-> ("C5" :> <<2, 2>> @@ "C5-OH" :> <<3, 3>>),
         control_2 |-> ("C5" :> <<1, 2>> @@ "C5-OH" :> <<3, 4>>),
         ratios    |-> ("C3/C2" :> <<1, 2>>)],
     processed_data |->
        IF kind = "A"
        THEN << DataRow("Control I", TRUE, FALSE,
                        "C5" :> CompoundValue(Num(2), "green")
                        @@ "C5-OH" :> CompoundValue(Num(4), "yellow")) >>
        ELSE << DataRow("Control II", FALSE, TRUE,
                        "C3/C2" :> CompoundValue(Num(1), "green")),
                DataRow("Patient 1", FALSE, FALSE, <<>>) >>]

GridReports == {GridReport("A"), GridReport("B")}

\* compoundData?.value / compoundData?.color || 'none'
ValueOf(row, compound) ==
    IF compound \in DOMAIN row.values THEN row.values[compound].value
    ELSE Undefined

ColorOf(row, compound) ==
    IF compound \in DOMAIN row.values THEN row.values[compound].color
    ELSE "none"

\* the rowObj built for one ProcessedDataRow: the properties [compound],
\* [compound]_color and [compound]_original are the fields value, color and
\* original
rowObj(data, row, index) ==
    [id |-> index,
     sampleName |-> row.sample_name,
     rowType |-> IF row.is_control_1 THEN "Control I"
                 ELSE IF row.is_control_2 THEN "Control II" ELSE "Patient",
     isControl1 |-> row.is_control_1,
     isControl2 |-> row.is_control_2,
     value    |-> [c \in SeqRange(data.compounds) |-> ValueOf(row, c)],
     color    |-> [c \in SeqRange(data.compounds) |-> ColorOf(row, c)],
     original |-> [c \in SeqRange(data.compounds) |-> ValueOf(row, c)]]

\* the effect that initializes the rows when processedData changes
initialRows(data) ==
    [i \in 1..Len(data.processed_data) |->
        rowObj(data, data.processed_data[i], i - 1)]

\* the rows handleResetChanges builds, without the colors
originalDataWithoutColors(data) ==
    [i \in 1..Len(data.processed_data) |->
        [rowObj(data, data.processed_data[i], i - 1) EXCEPT
            !.color = [c \in SeqRange(data.compounds) |-> "none"]]]

\* the rows handleResetChanges builds from processedData
originalData(data) ==
    [i \in 1..Len(data.processed_data) |->
        rowObj(data, data.processed_data[i], i - 1)]

\* fetchData resolved and the rows were initialized
loadReport(data) ==
    /\ location = "/review"
    /\ fetchData(data)
    /\ rowData' = initialRows(data)
    /\ UNCHANGED <<editedCells, approving, showConfirmDialog, pending,
                   location, lastAlert, trail, lastEdit>>

\* `${data.id}-${field}`
cellKey(id, field) == <<Dig(id)>> \o <<"-">> \o Chars(field)

\* rowData.findIndex(row => row.id === id), 0 for -1
findIndex(rows, id) ==
    IF \E i \in 1..Len(rows) : rows[i].id = id
    THEN CHOOSE i \in 1..Len(rows) : rows[i].id = id
    ELSE 0

\* a valueSetter that writes whatever parseFloat returned
valueSetterUnparsed(rows, id, field, newValue) ==
    IF findIndex(rows, id) # 0
    THEN [rows EXCEPT ![findIndex(rows, id)].value[field] = parseFloat(newValue)]
    ELSE rows

\* the column's valueSetter, run by the grid before the editing-stopped
\* event: a value that parses is written into the row object
valueSetter(rows, id, field, newValue) ==
    IF parseFloat(newValue) # NaN /\ findIndex(rows, id) # 0
    THEN [rows EXCEPT ![findIndex(rows, id)].value[field] = parseFloat(newValue)]
    ELSE rows

\* line 337: getColorForValue(field, numValue, data.isControl1, data.isControl2)
newColor(data, field, numValue, isControl1, isControl2) ==
    getColorForValue(data, field, numValue, isControl1, isControl2, FALSE)

\* the edit passes the guards of onCellEditingStopped
editAccepted(field, newValue, oldValue) ==
    /\ ~(field = "sampleName" \/ field = "rowType")
    /\ newValue # oldValue
    /\ parseFloat(newValue) # NaN

\* the grid stops editing the cell (id, field) with the editor's newValue:
\* valueSetter, then onCellEditingStopped
onCellEditingStopped(id, field, newValue) ==
    LET oldValue == rowData[findIndex(rowData, id)].value[field]
        data     == rowData[findIndex(rowData, id)]
        set      == valueSetter(rowData, id, field, newValue)
    IN  /\ location = "/review"
        /\ findIndex(rowData, id) # 0
        /\ field \in DOMAIN data.value
        /\ IF ~editAccepted(field, newValue, oldValue)
           THEN \* returns; a NaN first makes the grid set oldValue again
                /\ rowData' = (IF newValue # oldValue /\ parseFloat(newValue) = NaN
                               THEN valueSetter(set, id, field, oldValue)
                               ELSE set)
                /\ UNCHANGED editedCells
           ELSE /\ rowData' =
                       [set EXCEPT
                          ![findIndex(set, id)].value[field] = parseFloat(newValue),
                          ![findIndex(set, id)].color[field] =
                              newColor(processedData, field, parseFloat(newValue),
                                       data.isControl1, data.isControl2)]
                /\ editedCells' = editedCells \cup {cellKey(id, field)}
        /\ lastEdit' = [tag |-> "edit", id |-> id, field |-> field,
                        newValue |-> newValue,
                        turn |-> IF lastEdit = NoCall THEN 0
                                 ELSE 1 - lastEdit.turn]
        /\ UNCHANGED <<approving, showConfirmDialog, pending, location,
                       lastAlert, trail>>
        /\ UNCHANGED reviewVars

\* the Reset All Changes button, rendered while editedCells.size > 0
handleResetChanges ==
    /\ location = "/review"
    /\ editedCells # {}
    /\ IF processedData = Null
       THEN UNCHANGED <<rowData, editedCells>>
       ELSE /\ rowData' = originalData(processedData)
            /\ editedCells' = {}
    /\ UNCHANGED <<approving, showConfirmDialog, pending, location,
                   lastAlert, trail>>
    /\ UNCHANGED <<reviewVars, lastEdit>>

\* row[compound] for a property name given as characters: the value of the
\* column of that name, undefined when the row has no such property (names of
\* the other properties of a row never occur as the second piece of a key)
rowProperty(row, name) ==
    IF \E c \in DOMAIN row.value : Chars(c) = name
    THEN row.value[CHOOSE c \in DOMAIN row.value : Chars(c) = name]
    ELSE Undefined

\* const [rowIdStr, compound] = cellKey.split('-')
keyRowId(key) == parseInt(split(key, "-")[1])

keyCompound(key) ==
    IF Len(split(key, "-")) >= 2 THEN split(key, "-")[2] ELSE <<"?">>

\* the value getEditedData finds for a key, undefined when it skips the key
editedValue(rows, key) ==
    IF findIndex(rows, keyRowId(key)) = 0 THEN Undefined
    ELSE rowProperty(rows[findIndex(rows, keyRowId(key))], keyCompound(key))

getEditedData(cells, rows) ==
    [key \in {k \in cells : editedValue(rows, k) # Undefined} |->
        editedValue(rows, key).n]

\* the Approve & Generate PDF button, disabled while approving
handleApproveClick ==
    /\ location = "/review"
    /\ processedData # Null
    /\ ~approving
    /\ showConfirmDialog' = TRUE
    /\ UNCHANGED <<rowData, editedCells, approving, pending, location,
                   lastAlert, trail>>
    /\ UNCHANGED <<reviewVars, lastEdit>>

\* Cancel, or a click on the overlay of the dialog
cancelDialog ==
    /\ location = "/review"
    /\ showConfirmDialog
    /\ showConfirmDialog' = FALSE
    /\ UNCHANGED <<rowData, editedCells, approving, pending, location,
                   lastAlert, trail>>
    /\ UNCHANGED <<reviewVars, lastEdit>>

\* "Yes, Approve": handleApprove up to the await of approveReport
handleApprove ==
    /\ location = "/review"
    /\ showConfirmDialog
    /\ IF processedData = Null
       THEN UNCHANGED <<approving, showConfirmDialog, pending, trail>>
       ELSE /\ approving' = TRUE
            /\ showConfirmDialog' = FALSE
            /\ pending' = [tag |-> "approveReport",
                           editedData |-> getEditedData(editedCells, rowData),
                           cells |-> editedCells,
                           rows |-> rowData]
            /\ trail' = <<"approveReport">>
    /\ UNCHANGED <<rowData, editedCells, location, lastAlert>>
    /\ UNCHANGED <<reviewVars, lastEdit>>

\* approveReport resolved: handleApprove goes on to the await of downloadPDF
approveResolved ==
    /\ pending # NoCall /\ pending.tag = "approveReport"
    /\ pending' = [tag |-> "downloadPDF"]
    /\ trail' = Append(trail, "downloadPDF")
    /\ UNCHANGED <<rowData, editedCells, approving, showConfirmDialog,
                   location, lastAlert>>
    /\ UNCHANGED <<reviewVars, lastEdit>>

\* navigation is attempted after a failure too
callRejectedNavigating ==
    /\ pending # NoCall
    /\ lastAlert' = "Failed to approve report and generate PDF"
    /\ approving' = FALSE
    /\ pending' = NoCall
    /\ location' = "/report-handling"
    /\ trail' = Append(trail, "navigate")
    /\ UNCHANGED <<rowData, editedCells, showConfirmDialog>>
    /\ UNCHANGED <<reviewVars, lastEdit>>

\* approveReport or downloadPDF rejected: catch, then finally
callRejected ==
    /\ pending # NoCall
    /\ lastAlert' = "Failed to approve report and generate PDF"
    /\ approving' = FALSE
    /\ pending' = NoCall
    /\ UNCHANGED <<rowData, editedCells, showConfirmDialog, location, trail>>
    /\ UNCHANGED <<reviewVars, lastEdit>>

\* downloadPDF resolved: alert, navigate, then finally
downloadResolved ==
    /\ pending # NoCall /\ pending.tag = "downloadPDF"
    /\ lastAlert' = "Report approved successfully!"
    /\ location' = "/report-handling"
    /\ approving' = FALSE
    /\ pending' = NoCall
    /\ trail' = Append(trail, "navigate")
    /\ UNCHANGED <<rowData, editedCells, showConfirmDialog>>
    /\ UNCHANGED <<reviewVars, lastEdit>>

\* Cancel & Go Back, disabled while approving
handleGoBack ==
    /\ location = "/review"
    /\ ~approving
    /\ location' = "/report-handling"
    /\ UNCHANGED <<rowData, editedCells, approving, showConfirmDialog, pending,
                   lastAlert, trail>>
    /\ UNCHANGED <<reviewVars, lastEdit>>

\* what a cell editor can hand over: texts and a number
EditorValues == {Text("9"), Text("2abc"), Text("abc"), Num(2)}

RowIds == {0, 1}

GridFields == {"C5", "C5-OH", "C3/C2"}

(***************************************************************************)
(* App: the backend health line (App.tsx)                                  *)
(***************************************************************************)
MaxLoads == 3

\* a ?? b
Nullish(a, b) == IF a = Null \/ a = Undefined THEN b ELSE a

\* res.data.status of a response body that may lack the field
StatusField(data) == IF "status" \in DOMAIN data THEN data.status ELSE Undefined

\* bodies of a 200 answer of GET /health
HealthBodies ==
    { [status |-> [tag |-> "string", s |-> "healthy"]],
      [status |-> [tag |-> "string", s |-> "ok"]],
      [status |-> Null],
      [version |-> [tag |-> "string", s |-> "1.0"]] }

StatusText(x) == x.s

\* the rejection leaves the loading text in place
healthRejectedSilently ==
    /\ health.tag = "pending"
    /\ health' = [tag |-> "rejected"]
    /\ UNCHANGED <<status, loads, statusLog>>

\* .then(res => setStatus(res.data.status ?? "ok"))
healthResolved(data) ==
    /\ health.tag = "pending"
    /\ status' = StatusText(Nullish(StatusField(data),
                                    [tag |-> "string", s |-> "ok"]))
    /\ health' = [tag |-> "resolved", data |-> data]
    /\ statusLog' = Append(statusLog, status')
    /\ UNCHANGED loads

\* .catch(() => setStatus("backend not reachable"))
healthRejected ==
    /\ health.tag = "pending"
    /\ status' = "backend not reachable"
    /\ health' = [tag |-> "rejected"]
    /\ statusLog' = Append(statusLog, status')
    /\ UNCHANGED loads

\* the page is loaded again: a new App is mounted and its effect requests
\* GET /health; the request of the old page is dropped with it
loadApp ==
    /\ loads < MaxLoads
    /\ status' = "checking..."
    /\ health' = [tag |-> "pending"]
    /\ loads' = loads + 1
    /\ statusLog' = Append(statusLog, status')

(***************************************************************************)
(* BatchDashboard (components/analyzer/BatchDashboard.tsx): the tab and    *)
(* the search box                                                          *)
(***************************************************************************)
\* String.prototype.includes
stringIncludes(s, sub) ==
    \E i \in 0..(Len(s) - Len(sub)) : SubSeq(s, i + 1, i + Len(sub)) = sub

\* the filter callback compares the letters as they are
reportMatchesCaseSensitive(r, term) ==
    \/ stringIncludes(r.file_name, term)
    \/ /\ r.patient_info.name # Undefined
       /\ stringIncludes(r.patient_info.name, term)

\* the filter callback of getFilteredReports
reportMatches(r, term) ==
    \/ stringIncludes(toLowerCase(r.file_name), toLowerCase(term))
    \/ /\ r.patient_info.name # Undefined
       /\ stringIncludes(toLowerCase(r.patient_info.name), toLowerCase(term))

RECURSIVE filter(_, _)
\* reports.filter(r => ...) for the search term
filter(reports, term) ==
    IF reports = <<>> THEN <<>>
    ELSE (IF reportMatches(Head(reports), term) THEN <<Head(reports)>> ELSE <<>>)
         \o filter(Tail(reports), term)

getFilteredReports(b, tab, term) ==
    LET reports == CASE tab = "abnormal" -> b.abnormal_reports
                     [] tab = "normal"   -> b.normal_reports
                     [] tab = "all"      -> allReports(b)
                     [] OTHER            -> allReports(b)
    IN  IF term # <<>> THEN filter(reports, term) ELSE reports

\* the report cards rendered (none on the Unprocessed tab)
cardsShown(b, tab, term) ==
    IF tab # "failed" THEN getFilteredReports(b, tab, term) ELSE <<>>

\* something is typed into the search box
setSearchTerm(term) ==
    /\ batchResult # Null
    /\ searchTerm' = term
    /\ UNCHANGED <<docs, idx, acc, batchResult, activeTab>>

\* an AnalysisResult with the names the dashboard searches
NamedReport(fileName, patientName, tests) ==
    [patient_info |-> [name |-> patientName]]
    @@ analyzeDocument(Document(fileName, TRUE, tests))

AbnormalReportA ==
    NamedReport(Chars("a.pdf"), Chars("Ben"), <<Test("C0", Num(5), Range(1, 3))>>)

AbnormalReportB ==
    NamedReport(Chars("b.pdf"), Undefined, <<Test("C0", Num(4), Range(1, 3))>>)

NormalReportC == NamedReport(Chars("A.PDF"), Chars("Asha"), <<>>)

FailedReportD == [path |-> Chars("a.zip"), error |-> "extraction failed"]

\* the accumulator that holds the given buckets
Buckets(abnormal, normal, failed) ==
    [successful |-> Len(abnormal) + Len(normal), failed |-> Len(failed),
     normal_reports |-> normal, abnormal_reports |-> abnormal,
     failed_reports |-> failed]

\* the batch results the dashboard is mounted with
DashboardResults ==
    {batchResponse(Buckets(abnormal, normal, failed),
                   Len(abnormal) + Len(normal) + Len(failed)) :
        abnormal \in {<<>>, <<AbnormalReportA>>, <<AbnormalReportA, AbnormalReportB>>,
                      <<AbnormalReportB, AbnormalReportA>>},
        normal \in {<<>>, <<NormalReportC>>},
        failed \in {<<>>, <<FailedReportD>>}}

SearchTerms == {Chars(w) : w \in {"", "a", "PDF", "ben", "b.pdf", "zz"}}

(***************************************************************************)
(* ReportAnalyser page (pages/ReportAnalyser): file-type routing, the      *)
(* awaited request and its outcome                                         *)
(***************************************************************************)
\* String.prototype.endsWith
endsWith(s, suffix) ==
    /\ Len(s) >= Len(suffix)
    /\ SubSeq(s, Len(s) - Len(suffix) + 1, Len(s)) = suffix

\* a text of a response, of an error or of the page
Msg(text) == [tag |-> "text", text |-> text]

\* a || b on texts and missing values
OrElse(a, b) == IF a = Undefined \/ a = Null \/ a = Msg("") THEN b ELSE a

RemoveAt(q, i) == SubSeq(q, 1, i - 1) \o SubSeq(q, i + 1, Len(q))

\* the upload section (and with it the FileUploader) is rendered
uploaderShown == ~isAnalyzing /\ analysisResult = Null /\ batchResult = Null

\* every name is sent to the single-document endpoint
isPDFAlways(file) == TRUE

isPDF(file) == endsWith(toLowerCase(file.name), Chars(".pdf"))

isZIP(file) == endsWith(toLowerCase(file.name), Chars(".zip"))

\* the call analyzeSinglePDF(file) or analyzeBatchPDFs(file)
AnalysisRequest(endpoint, file) == [endpoint |-> endpoint, file |-> file]

\* the FileUploader hands a validated file to handleFileSelect, which runs up
\* to its return or to its await
handleFileSelect(file) ==
    /\ uploaderShown
    /\ validateFile(file) = Null
    /\ analysisResult' = Null
    /\ batchResult' = Null
    /\ uploadedFileName' = file.name
    /\ settled' = Null
    /\ IF ~isPDF(file) /\ ~isZIP(file)
       THEN /\ analysisError' = Msg("Invalid file type. Please upload a PDF or ZIP file.")
            /\ isAnalyzing' = FALSE
            /\ sent' = <<>>
            /\ UNCHANGED <<isBatchUpload, inflight>>
       ELSE /\ analysisError' = Null
            /\ isAnalyzing' = TRUE
            /\ isBatchUpload' = ~isPDF(file)
            /\ LET endpoint == IF isPDF(file) THEN "analyze-pdf" ELSE "analyze-batch"
               IN  /\ inflight' = Append(inflight, AnalysisRequest(endpoint, file))
                   /\ sent' = <<AnalysisRequest(endpoint, file)>>
    /\ UNCHANGED <<doc, docs, idx, acc, activeTab>>

\* a response with success = false stores its result all the same
singleOutcomeAnyResult(response) ==
    IF response.result # Undefined
    THEN [result |-> response.result, error |-> Null]
    ELSE [result |-> Null, error |-> OrElse(response.error, Msg("Analysis failed"))]

\* lines 42-46: what a SingleAnalysisResponse sets
singleOutcome(response) ==
    IF response.success /\ response.result # Undefined
    THEN [result |-> response.result, error |-> Null]
    ELSE [result |-> Null, error |-> OrElse(response.error, Msg("Analysis failed"))]

\* analyzeSinglePDF resolved for the i-th awaited request: lines 42-46, finally
singleResolved(i, response) ==
    /\ i \in 1..Len(inflight)
    /\ inflight[i].endpoint = "analyze-pdf"
    /\ IF singleOutcome(response).result # Null
       THEN /\ analysisResult' = singleOutcome(response).result
            /\ UNCHANGED analysisError
       ELSE /\ analysisError' = singleOutcome(response).error
            /\ UNCHANGED analysisResult
    /\ isAnalyzing' = FALSE
    /\ inflight' = RemoveAt(inflight, i)
    /\ settled' = response
    /\ UNCHANGED <<batchResult, uploadedFileName, isBatchUpload, sent>>
    /\ UNCHANGED <<doc, docs, idx, acc, activeTab>>

\* analyzeBatchPDFs resolved for the i-th awaited request: lines 52-56,
\* finally; a stored response mounts the dashboard on its default tab
batchResolved(i, response) ==
    /\ i \in 1..Len(inflight)
    /\ inflight[i].endpoint = "analyze-batch"
    /\ IF response.success
       THEN /\ batchResult' = response
            /\ activeTab' = "abnormal"
            /\ UNCHANGED analysisError
       ELSE /\ analysisError' = OrElse(response.message, Msg("Batch analysis failed"))
            /\ UNCHANGED <<batchResult, activeTab>>
    /\ isAnalyzing' = FALSE
    /\ inflight' = RemoveAt(inflight, i)
    /\ settled' = response
    /\ UNCHANGED <<analysisResult, uploadedFileName, isBatchUpload, sent>>
    /\ UNCHANGED <<doc, docs, idx, acc>>

\* an axios error: response.data.detail, response.data.error, code, message
AxiosError(detail, dataError, code, message) ==
    [tag |-> "error", detail |-> detail, error |-> dataError, code |-> code,
     message |-> message]

\* lines 62-74: the text the catch block shows
errorText(err) ==
    IF OrElse(err.detail, Undefined) # Undefined THEN err.detail
    ELSE IF OrElse(err.error, Undefined) # Undefined THEN err.error
    ELSE IF err.code = Msg("ECONNABORTED")
    THEN Msg("Request timed out. The file may be too large or contain too many PDFs. Please try with a smaller file.")
    ELSE IF err.code = Msg("ERR_NETWORK")
    THEN Msg("Network error. Please check if the backend server is running and accessible.")
    ELSE IF OrElse(err.message, Undefined) # Undefined THEN err.message
    ELSE Msg("Failed to analyze report. Please try again.")

\* the catch block leaves the spinner on
requestRejectedStillAnalyzing(i, err) ==
    /\ i \in 1..Len(inflight)
    /\ analysisError' = errorText(err)
    /\ inflight' = RemoveAt(inflight, i)
    /\ settled' = err
    /\ UNCHANGED <<isAnalyzing, analysisResult, batchResult, uploadedFileName,
                   isBatchUpload, sent>>
    /\ UNCHANGED <<doc, docs, idx, acc, activeTab>>

\* the awaited request rejected: catch, finally
requestRejected(i, err) ==
    /\ i \in 1..Len(inflight)
    /\ analysisError' = errorText(err)
    /\ isAnalyzing' = FALSE
    /\ inflight' = RemoveAt(inflight, i)
    /\ settled' = err
    /\ UNCHANGED <<analysisResult, batchResult, uploadedFileName,
                   isBatchUpload, sent>>
    /\ UNCHANGED <<doc, docs, idx, acc, activeTab>>

\* handleReset, handed to the dashboard as onReset.  BatchDashboard takes the
\* prop and has no control that calls it, so no step of the page runs it.
handleReset ==
    /\ batchResult # Null
    /\ ~isAnalyzing
    /\ analysisResult' = Null
    /\ batchResult' = Null
    /\ analysisError' = Null
    /\ uploadedFileName' = <<>>
    /\ isBatchUpload' = FALSE
    /\ UNCHANGED <<isAnalyzing, inflight, sent, settled>>
    /\ UNCHANGED <<doc, docs, idx, acc, activeTab>>

\* SingleAnalysisResponse values: a result, a refusal with and without an
\* error text, and the other shapes the type allows (success without a
\* result, a result without success)
SingleResponses ==
    LET abnormal == analyzeDocument(Document("report.pdf", TRUE,
                                             <<Test("C0", Num(5), Range(1, 3))>>))
        normal   == analyzeDocument(Document("report.pdf", TRUE, <<>>))
    IN  {[success |-> TRUE, result |-> abnormal, error |-> Undefined],
         [success |-> TRUE, result |-> normal, error |-> Undefined],
         [success |-> FALSE, result |-> Undefined, error |-> Msg("extraction failed")],
         [success |-> FALSE, result |-> Undefined, error |-> Undefined],
         [success |-> TRUE, result |-> Undefined, error |-> Undefined],
         [success |-> FALSE, result |-> normal, error |-> Undefined]}

\* BatchAnalysisResponse values: with abnormal, normal and unprocessed
\* reports, with one unprocessed report only, of an empty archive, and two
\* refusals
BatchResponses ==
    {batchResponse(Buckets(abnormal, normal, failed),
                   Len(abnormal) + Len(normal) + Len(failed)) :
        <<abnormal, normal, failed>> \in
            { <<<<AbnormalReportA, AbnormalReportB>>, <<NormalReportC>>, <<FailedReportD>>>>,
              <<<<>>, <<>>, <<FailedReportD>>>>,
              <<<<>>, <<>>, <<>>>> }}
    \cup {[success |-> FALSE, message |-> Msg("No PDF files found in ZIP")],
          [success |-> FALSE, message |-> Msg("")]}

AxiosErrors ==
    { AxiosError(Msg("Invalid PDF"), Undefined, Msg("ERR_BAD_REQUEST"), Msg("Request failed")),
      AxiosError(Undefined, Msg("Analysis crashed"), Msg("ERR_BAD_RESPONSE"), Msg("Request failed")),
      AxiosError(Undefined, Undefined, Msg("ECONNABORTED"), Msg("timeout exceeded")),
      AxiosError(Undefined, Undefined, Msg("ERR_NETWORK"), Msg("Network Error")),
      AxiosError(Undefined, Undefined, Undefined, Msg("Request failed")),
      AxiosError(Undefined, Undefined, Undefined, Msg("")) }

\* the requests that can be awaited at once in the runs explored
MaxInflight == 2

(***************************************************************************)
(* ZIP extraction (utils/zipExtractor.ts) and the batch report card        *)
(* (components/analyzer/BatchReportCard.tsx)                               *)
(***************************************************************************)
\* what a call leaves when an exception escapes it
Thrown == [tag |-> "thrown"]

\* String.prototype.replace(/\\/g, '/')
replaceBackslashes(s) == [i \in 1..Len(s) |-> IF s[i] = "\\" THEN "/" ELSE s[i]]

\* name.toLowerCase().replace(/\\/g, '/')
normalized(name) == replaceBackslashes(toLowerCase(name))

\* JSZip.loadAsync: the archive's entries, or a rejection
loadAsync(zipFile) ==
    IF zipFile.loads THEN [tag |-> "zip", files |-> zipFile.files] ELSE Thrown

\* zip.file(name): the position of the file (not folder) entry of exactly
\* that name, 0 for null
zipFileByName(entries, name) ==
    IF \E i \in 1..Len(entries) : entries[i].name = name /\ ~entries[i].dir
        THEN CHOOSE i \in 1..Len(entries) : entries[i].name = name /\ ~entries[i].dir
        ELSE 0

\* allFiles.find(name => normalized(name) === normalizedFileName): the
\* position of the first such key, 0 for undefined
findMatching(entries, normalizedFileName) ==
    LET hits == {i \in 1..Len(entries) :
                    normalized(entries[i].name) = normalizedFileName}
    IN  IF hits = {} THEN 0
        ELSE CHOOSE i \in hits : \A j \in hits : i <= j

\* the entry extractPDFFromZip settles on, 0 when pdfFile stays null
pdfFileOf(entries, pdfFileName) ==
    LET exact == zipFileByName(entries, pdfFileName)
        matchingFileName == findMatching(entries, normalized(pdfFileName))
    IN  IF exact # 0 THEN exact
        ELSE IF matchingFileName # 0
            THEN zipFileByName(entries, entries[matchingFileName].name)
            ELSE 0

\* pdfFile.async('arraybuffer'), new Blob, URL.createObjectURL
BlobUrl(i) == [tag |-> "blob", entry |-> i]

\* the body of the try block
extractBody(zipFile, pdfFileName) ==
    LET zip == loadAsync(zipFile)
    IN  IF zip = Thrown THEN Thrown
        ELSE LET entries == zip.files
                 pdfFile == pdfFileOf(entries, pdfFileName)
             IN  IF pdfFile = 0 THEN Null
                 ELSE IF ~entries[pdfFile].readable THEN Thrown
                 ELSE BlobUrl(pdfFile)

extractPDFFromZipUncaught(zipFile, pdfFileName) ==
    IF zipFile = Null THEN Null ELSE extractBody(zipFile, pdfFileName)

extractPDFFromZip(zipFile, pdfFileName) ==
    IF zipFile = Null THEN Null
    ELSE LET body == extractBody(zipFile, pdfFileName)
         IN  IF body = Thrown THEN Null ELSE body

\* one call of extractPDFFromZip on the component's ZIP and file name
extract ==
    /\ extracted = Null
    /\ LET blobUrl == extractPDFFromZip(uploadedZipFile, file_name)
       IN  /\ extracted' = [zipFile |-> uploadedZipFile, pdfFileName |-> file_name,
                            result |-> blobUrl]
           /\ blobs' = IF blobUrl = Null \/ blobUrl = Thrown THEN blobs
                       ELSE Append(blobs, [entry |-> blobUrl.entry, handed |-> "none",
                                           timer |-> 0, age |-> 0,
                                           revoked |-> 0, revokedAt |-> 0])
    /\ UNCHANGED <<uploadedZipFile, file_name, isExpanded, isLoadingPDF, pdfError,
                   viewing, mounted>>

ViewDelay == 60000
DownloadDelay == 5000
\* the step of the clock: the largest that meets both delays
TickMs == DownloadDelay

revokeDelayAlwaysShort(download) == DownloadDelay

\* the delay of the setTimeout that revokes the URL
revokeDelay(download) == IF download THEN DownloadDelay ELSE ViewDelay

\* onClick of the card header
toggleExpanded ==
    /\ mounted
    /\ isExpanded' = ~isExpanded
    /\ UNCHANGED <<uploadedZipFile, file_name, isLoadingPDF, pdfError, viewing,
                   blobs, mounted, extracted>>

\* handleViewPDF up to its await; the buttons are rendered in the expanded
\* card and disabled while isLoadingPDF || !uploadedZipFile
handleViewPDF(download) ==
    /\ mounted /\ isExpanded
    /\ ~(isLoadingPDF \/ uploadedZipFile = Null)
    /\ IF uploadedZipFile = Null
        THEN /\ pdfError' = Msg("ZIP file is no longer available. Please re-upload to view PDFs.")
             /\ UNCHANGED <<isLoadingPDF, viewing>>
        ELSE /\ isLoadingPDF' = TRUE
             /\ pdfError' = Null
             /\ viewing' = [tag |-> "view", download |-> download]
    /\ UNCHANGED <<uploadedZipFile, file_name, isExpanded, blobs, mounted, extracted>>

\* handleViewPDF from the await on: extractPDFFromZip has settled; opened
\* says whether window.open returned a window. State setters of an
\* unmounted card do nothing.
extractSettled(opened) ==
    /\ viewing # NoCall
    /\ LET pdfUrl == extractPDFFromZip(uploadedZipFile, file_name)
           download == viewing.download
       IN  /\ extracted' = [zipFile |-> uploadedZipFile, pdfFileName |-> file_name,
                            result |-> pdfUrl]
           /\ IF pdfUrl = Thrown
               THEN /\ blobs' = blobs
                    /\ pdfError' = IF mounted
                        THEN Msg("An error occurred while trying to open the PDF.")
                        ELSE pdfError
               ELSE IF pdfUrl # Null
               THEN /\ blobs' = Append(blobs,
                          [entry |-> pdfUrl.entry,
                           handed |-> IF download THEN "download"
                                      ELSE IF opened THEN "window" ELSE "blocked",
                           timer |-> revokeDelay(download), age |-> 0,
                           revoked |-> 0, revokedAt |-> 0])
                    /\ pdfError' = IF mounted /\ ~download /\ ~opened
                        THEN Msg("Pop-up blocked. Please allow pop-ups or use the download option.")
                        ELSE pdfError
               ELSE /\ blobs' = blobs
                    /\ pdfError' = IF mounted
                        THEN Msg("Unable to extract PDF from the archive. The file may have been moved or renamed.")
                        ELSE pdfError
    /\ isLoadingPDF' = IF mounted THEN FALSE ELSE isLoadingPDF
    /\ viewing' = NoCall
    /\ UNCHANGED <<uploadedZipFile, file_name, isExpanded, mounted>>

\* the dashboard stops rendering the card (another tab, a search term)
unmount ==
    /\ mounted
    /\ mounted' = FALSE
    /\ UNCHANGED <<uploadedZipFile, file_name, isExpanded, isLoadingPDF, pdfError,
                   viewing, blobs, extracted>>

\* revokeBlobURL
revokeBlobURL(blobUrl) ==
    blobs' = [blobs EXCEPT ![blobUrl].revoked = @ + 1,
                           ![blobUrl].revokedAt = blobs[blobUrl].age,
                           ![blobUrl].timer = 0]

\* the setTimeout callback of a URL runs, once its delay has passed
timerFires(blobUrl) ==
    /\ blobUrl \in 1..Len(blobs)
    /\ blobs[blobUrl].timer # 0
    /\ blobs[blobUrl].age >= blobs[blobUrl].timer
    /\ revokeBlobURL(blobUrl)
    /\ UNCHANGED <<uploadedZipFile, file_name, isExpanded, isLoadingPDF, pdfError,
                   viewing, mounted, extracted>>

\* TickMs pass; a timer that is due runs first
tick ==
    /\ \E u \in 1..Len(blobs) : blobs[u].timer # 0
    /\ \A u \in 1..Len(blobs) : blobs[u].timer # 0 => blobs[u].age < blobs[u].timer
    /\ blobs' = [u \in 1..Len(blobs) |->
                    IF blobs[u].timer # 0
                        THEN [blobs[u] EXCEPT !.age = @ + TickMs]
                        ELSE blobs[u]]
    /\ UNCHANGED <<uploadedZipFile, file_name, isExpanded, isLoadingPDF, pdfError,
                   viewing, mounted, extracted>>

ZipEntry(name, dir, readable) == [name |-> Chars(name), dir |-> dir, readable |-> readable]

ZipEntries ==
    {ZipEntry(n, FALSE, r) : n \in {"a.pdf", "A.PDF", "d/a.pdf", "D\\a.pdf"},
                             r \in BOOLEAN}
        \cup {ZipEntry("d/", TRUE, TRUE)}

\* the archives: up to two entries under different keys, loading or not
ZipFiles ==
    {[loads |-> l, files |-> f] :
        l \in BOOLEAN,
        f \in {<<>>} \cup {<<e>> : e \in ZipEntries}
                \cup {p \in ZipEntries \X ZipEntries : p[1].name # p[2].name}}

\* the file names of reports
PdfFileNames == {Chars(n) : n \in {"a.pdf", "d/a.pdf", "d\\a.pdf", "b.pdf"}}

\* the archives a mounted card is given
CardZips ==
    {[loads |-> TRUE, files |-> <<ZipEntry("a.pdf", FALSE, TRUE)>>],
     [loads |-> TRUE, files |-> <<ZipEntry("A.PDF", FALSE, TRUE)>>],
     [loads |-> TRUE, files |-> <<ZipEntry("a.pdf", FALSE, FALSE)>>],
     [loads |-> FALSE, files |-> <<>>],
     [loads |-> TRUE, files |-> <<>>]}

MaxBlobs == 2

CardInit ==
    /\ uploadedZipFile = Null
    /\ file_name = Chars("a.pdf")
    /\ isExpanded = FALSE
    /\ isLoadingPDF = FALSE
    /\ pdfError = Null
    /\ viewing = NoCall
    /\ blobs = <<>>
    /\ mounted = TRUE
    /\ extracted = Null

(***************************************************************************)
(* Specifications                                                          *)
(***************************************************************************)
MembersInit ==
    /\ uploadedBy = "anonymous"
    /\ members = <<>>
    /\ showMemberManagement = FALSE
    /\ storage = Null
    /\ nameChosen = FALSE

PageInit ==
    /\ files = NoFiles
    /\ isUploading = FALSE
    /\ uploadProgress = ""
    /\ uploadedReport = Null
    /\ error = Null
    /\ isValidating = FALSE
    /\ validationResult = Null
    /\ request = NoRequest
    /\ submitted = <<>>
    /\ MembersInit

ReviewInit ==
    /\ processedData = Null
    /\ call = NoCall
    /\ repeated = FALSE

SingleInit ==
    /\ doc = Document("report.pdf", TRUE, <<>>)
    /\ analysisResult = Null

BatchInit ==
    /\ docs = <<>>
    /\ idx = 0
    /\ acc = EmptyBatch
    /\ batchResult = Null
    /\ activeTab = "abnormal"

UploaderInit ==
    /\ isDragging = FALSE
    /\ selectedFile = Null
    /\ offered = Null
    /\ passed = Null

GridInit ==
    /\ rowData = <<>>
    /\ editedCells = {}
    /\ approving = FALSE
    /\ showConfirmDialog = FALSE
    /\ pending = NoCall
    /\ location = "/review"
    /\ lastAlert = Null
    /\ trail = <<>>
    /\ lastEdit = NoCall

AppInit ==
    /\ status = "checking..."
    /\ health = [tag |-> "pending"]
    /\ loads = 1
    /\ statusLog = <<"checking...">>

AnalyserInit ==
    /\ isAnalyzing = FALSE
    /\ analysisError = Null
    /\ uploadedFileName = <<>>
    /\ isBatchUpload = FALSE
    /\ inflight = <<>>
    /\ sent = <<>>
    /\ settled = Null

DashInit == searchTerm = <<>>

LateInit == AnalyserInit /\ DashInit /\ CardInit

RestInit == UploaderInit /\ GridInit /\ AppInit /\ LateInit

\* ---- the report-upload page ----
Init == PageInit /\ ReviewInit /\ SingleInit /\ BatchInit /\ RestInit

Next ==
    \/ /\ \E k \in FileKeys, f \in PageNames \cup {NoFile} : handleFileChange(k, f)
       /\ UNCHANGED <<reviewVars, singleVars, batchVars, restVars>>
    \/ /\ handleSubmit
       /\ UNCHANGED <<reviewVars, singleVars, batchVars, restVars>>
    \/ /\ uploadResolved
       /\ UNCHANGED <<reviewVars, singleVars, batchVars, restVars>>
    \/ /\ \E err \in UploadErrors : uploadRejected(err)
       /\ UNCHANGED <<reviewVars, singleVars, batchVars, restVars>>

Spec == Init /\ [][Next]_vars

\* ---- validateFiles on any three selected names ----
ValidateInit ==
    /\ files \in [FileKeys -> AllNames]
    /\ isUploading = FALSE
    /\ uploadProgress = ""
    /\ uploadedReport = Null
    /\ error = Null
    /\ isValidating = FALSE
    /\ validationResult = Null
    /\ request = NoRequest
    /\ submitted = <<>>
    /\ MembersInit
    /\ ReviewInit /\ SingleInit /\ BatchInit /\ RestInit

runValidateFiles ==
    /\ validationResult' = validateFiles(files.file1, files.file2, files.file3)
    /\ error' = Null
    /\ isValidating' = FALSE
    /\ UNCHANGED <<files, isUploading, uploadProgress, uploadedReport, request,
                   submitted>>
    /\ UNCHANGED memberVars
    /\ UNCHANGED <<reviewVars, singleVars, batchVars, restVars>>

ValidateNext == runValidateFiles

SpecValidate == ValidateInit /\ [][ValidateNext]_vars

\* ---- the classifier of the review grid ----
ClassifyInit == Init

ClassifyNext ==
    \/ /\ \E data \in ProcessedReports : fetchData(data)
       /\ UNCHANGED <<pageVars, singleVars, batchVars, restVars>>
    \/ /\ \E compound \in Compounds, value \in CellValues,
             isControl1 \in BOOLEAN, isControl2 \in BOOLEAN, isRatio \in BOOLEAN :
             classify(compound, value, isControl1, isControl2, isRatio)
       /\ UNCHANGED <<pageVars, singleVars, batchVars, restVars>>

SpecClassify == ClassifyInit /\ [][ClassifyNext]_vars

\* ---- the single-document analyser ----
AnalyzeInit ==
    /\ PageInit /\ ReviewInit /\ BatchInit /\ RestInit
    /\ doc \in SingleDocs
    /\ analysisResult = Null

AnalyzeNext ==
    \/ /\ analyzeSingle
       /\ UNCHANGED <<pageVars, reviewVars, batchVars, restVars>>

SpecAnalyze == AnalyzeInit /\ [][AnalyzeNext]_vars

\* ---- the batch analyser and its dashboard ----
BatchSpecInit ==
    /\ PageInit /\ ReviewInit /\ SingleInit /\ RestInit
    /\ docs \in Archives
    /\ idx = 0
    /\ acc = EmptyBatch
    /\ batchResult = Null
    /\ activeTab = "abnormal"

BatchNext ==
    \/ /\ processNext
       /\ UNCHANGED <<pageVars, reviewVars, singleVars, restVars>>
    \/ /\ finishBatch
       /\ UNCHANGED <<pageVars, reviewVars, singleVars, restVars>>
    \/ /\ \E tab \in {"all", "abnormal", "normal", "failed"} : setActiveTab(tab)
       /\ UNCHANGED <<pageVars, reviewVars, singleVars, restVars>>

SpecBatch == BatchSpecInit /\ [][BatchNext]_vars

\* ---- the FileUploader of the analyser page ----
UploaderNext ==
    \/ /\ handleDragOver
       /\ UNCHANGED <<pageVars, reviewVars, singleVars, batchVars, gridVars,
                      appVars,
                    lateVars>>
    \/ /\ handleDragLeave
       /\ UNCHANGED <<pageVars, reviewVars, singleVars, batchVars, gridVars,
                      appVars,
                    lateVars>>
    \/ /\ \E file \in UploadFiles : handleDrop(file)
       /\ UNCHANGED <<pageVars, reviewVars, singleVars, batchVars, gridVars,
                      appVars,
                    lateVars>>
    \/ /\ \E file \in UploadFiles : uploaderFileChange(file)
       /\ UNCHANGED <<pageVars, reviewVars, singleVars, batchVars, gridVars,
                      appVars,
                    lateVars>>
    \/ /\ handleUploadClick
       /\ UNCHANGED <<pageVars, reviewVars, singleVars, batchVars, gridVars,
                      appVars,
                    lateVars>>
    \/ /\ handleClearFile
       /\ UNCHANGED <<pageVars, reviewVars, singleVars, batchVars, gridVars,
                      appVars,
                    lateVars>>

SpecUploader == Init /\ [][UploaderNext]_vars


\* ---- the uploader name and the saved members of the upload page ----
\* each file input is given the file of one accepted triplet
MemberPageFile(k) ==
    CASE k = "file1" -> FileName(DateToken(1, 7, 2024), "AA")
      [] k = "file2" -> FileName(DateToken(1, 7, 2024), "AC")
      [] k = "file3" -> FileName(DateToken(1, 7, 2024), "AC_EXT")

MembersNext ==
    \/ /\ \E k \in FileKeys : handleFileChange(k, MemberPageFile(k))
       /\ UNCHANGED <<reviewVars, singleVars, batchVars, restVars>>
    \/ /\ handleSubmit
       /\ UNCHANGED <<reviewVars, singleVars, batchVars, restVars>>
    \/ /\ uploadResolved
       /\ UNCHANGED <<reviewVars, singleVars, batchVars, restVars>>
    \/ /\ \E err \in UploadErrors : uploadRejected(err)
       /\ UNCHANGED <<reviewVars, singleVars, batchVars, restVars>>
    \/ /\ \E text \in TypedNames : typeUploadedBy(text)
       /\ UNCHANGED <<reviewVars, singleVars, batchVars, restVars>>
    \/ /\ toggleMemberManagement
       /\ UNCHANGED <<reviewVars, singleVars, batchVars, restVars>>
    \/ /\ \E member \in TypedNames : selectMember(member)
       /\ UNCHANGED <<reviewVars, singleVars, batchVars, restVars>>
    \/ /\ \E member \in TypedNames : handleRemoveMember(member)
       /\ UNCHANGED <<reviewVars, singleVars, batchVars, restVars>>
    \/ /\ reloadPage
       /\ UNCHANGED <<reviewVars, singleVars, batchVars, restVars>>

SpecMembers == Init /\ [][MembersNext]_vars


\* ---- the review grid and the approval ----
ReviewNext ==
    \/ /\ \E data \in GridReports : loadReport(data)
       /\ UNCHANGED <<pageVars, singleVars, batchVars, uploaderVars, appVars,
                    lateVars>>
    \/ /\ \E id \in RowIds, field \in GridFields, newValue \in EditorValues :
             onCellEditingStopped(id, field, newValue)
       /\ UNCHANGED <<pageVars, singleVars, batchVars, uploaderVars, appVars,
                    lateVars>>
    \/ /\ handleResetChanges
       /\ UNCHANGED <<pageVars, singleVars, batchVars, uploaderVars, appVars,
                    lateVars>>
    \/ /\ handleApproveClick
       /\ UNCHANGED <<pageVars, singleVars, batchVars, uploaderVars, appVars,
                    lateVars>>
    \/ /\ cancelDialog
       /\ UNCHANGED <<pageVars, singleVars, batchVars, uploaderVars, appVars,
                    lateVars>>
    \/ /\ handleApprove
       /\ UNCHANGED <<pageVars, singleVars, batchVars, uploaderVars, appVars,
                    lateVars>>
    \/ /\ approveResolved
       /\ UNCHANGED <<pageVars, singleVars, batchVars, uploaderVars, appVars,
                    lateVars>>
    \/ /\ callRejected
       /\ UNCHANGED <<pageVars, singleVars, batchVars, uploaderVars, appVars,
                    lateVars>>
    \/ /\ downloadResolved
       /\ UNCHANGED <<pageVars, singleVars, batchVars, uploaderVars, appVars,
                    lateVars>>
    \/ /\ handleGoBack
       /\ UNCHANGED <<pageVars, singleVars, batchVars, uploaderVars, appVars,
                    lateVars>>

SpecReview == Init /\ [][ReviewNext]_vars


\* ---- the health line of App ----
AppNext ==
    \/ /\ \E data \in HealthBodies : healthResolved(data)
       /\ UNCHANGED <<pageVars, reviewVars, singleVars, batchVars, uploaderVars,
                      gridVars,
                    lateVars>>
    \/ /\ healthRejected
       /\ UNCHANGED <<pageVars, reviewVars, singleVars, batchVars, uploaderVars,
                      gridVars,
                    lateVars>>
    \/ /\ loadApp
       /\ UNCHANGED <<pageVars, reviewVars, singleVars, batchVars, uploaderVars,
                      gridVars,
                    lateVars>>

SpecApp == Init /\ [][AppNext]_vars


\* ---- the analyser page ----
AnalyserNext ==
    \/ /\ \E file \in UploadFiles : Len(inflight) < MaxInflight /\ handleFileSelect(file)
       /\ UNCHANGED <<pageVars, reviewVars, uploaderVars, gridVars, appVars,
                    dashVars, cardVars>>
    \/ /\ \E i \in 1..MaxInflight, response \in SingleResponses :
             singleResolved(i, response)
       /\ UNCHANGED <<pageVars, reviewVars, uploaderVars, gridVars, appVars,
                    dashVars, cardVars>>
    \/ /\ \E i \in 1..MaxInflight, response \in BatchResponses :
             batchResolved(i, response)
       /\ UNCHANGED <<pageVars, reviewVars, uploaderVars, gridVars, appVars,
                    dashVars, cardVars>>
    \/ /\ \E i \in 1..MaxInflight, err \in AxiosErrors : requestRejected(i, err)
       /\ UNCHANGED <<pageVars, reviewVars, uploaderVars, gridVars, appVars,
                    dashVars, cardVars>>
    \/ /\ \E tab \in {"all", "abnormal", "normal", "failed"} : setActiveTab(tab)
       /\ UNCHANGED <<pageVars, reviewVars, singleVars, uploaderVars, gridVars,
                    appVars, analyserVars, dashVars, cardVars>>
    \/ /\ \E term \in SearchTerms : setSearchTerm(term)
       /\ UNCHANGED <<pageVars, reviewVars, singleVars, uploaderVars, gridVars,
                    appVars, analyserVars, cardVars>>

SpecAnalyser == Init /\ [][AnalyserNext]_vars

\* every awaited request settles
Settle ==
    /\ \E i \in 1..MaxInflight :
          \/ \E response \in SingleResponses : singleResolved(i, response)
          \/ \E response \in BatchResponses : batchResolved(i, response)
          \/ \E err \in AxiosErrors : requestRejected(i, err)
    /\ UNCHANGED <<pageVars, reviewVars, uploaderVars, gridVars, appVars,
                    dashVars, cardVars>>

SpecAnalyserSettling == SpecAnalyser /\ WF_vars(Settle)


\* ---- the batch dashboard, mounted with a batch result ----
DashboardInit ==
    /\ PageInit /\ ReviewInit /\ SingleInit /\ RestInit
    /\ docs = <<>>
    /\ idx = 0
    /\ acc = EmptyBatch
    /\ batchResult \in DashboardResults
    /\ activeTab = "abnormal"

DashboardNext ==
    \/ /\ \E tab \in {"all", "abnormal", "normal", "failed"} : setActiveTab(tab)
       /\ UNCHANGED <<pageVars, reviewVars, singleVars, restVars>>
    \/ /\ \E term \in SearchTerms : setSearchTerm(term)
       /\ UNCHANGED <<pageVars, reviewVars, singleVars, uploaderVars, gridVars,
                    appVars, analyserVars, cardVars>>

SpecDashboard == DashboardInit /\ [][DashboardNext]_vars


\* ---- extractPDFFromZip on its own ----
nonCardVars == <<pageVars, reviewVars, singleVars, batchVars, uploaderVars,
                 gridVars, appVars, analyserVars, dashVars>>

NonCardInit ==
    /\ PageInit /\ ReviewInit /\ SingleInit /\ BatchInit
    /\ UploaderInit /\ GridInit /\ AppInit /\ AnalyserInit /\ DashInit

ExtractInit ==
    /\ NonCardInit
    /\ uploadedZipFile \in ZipFiles \cup {Null}
    /\ file_name \in PdfFileNames
    /\ isExpanded = FALSE
    /\ isLoadingPDF = FALSE
    /\ pdfError = Null
    /\ viewing = NoCall
    /\ blobs = <<>>
    /\ mounted = TRUE
    /\ extracted = Null

ExtractNext == extract /\ UNCHANGED nonCardVars

SpecExtract == ExtractInit /\ [][ExtractNext]_vars


\* ---- a batch report card of an abnormal report ----
CardMountedInit ==
    /\ NonCardInit
    /\ uploadedZipFile \in CardZips \cup {Null}
    /\ file_name = Chars("a.pdf")
    /\ isExpanded = FALSE
    /\ isLoadingPDF = FALSE
    /\ pdfError = Null
    /\ viewing = NoCall
    /\ blobs = <<>>
    /\ mounted = TRUE
    /\ extracted = Null

CardNext ==
    \/ toggleExpanded /\ UNCHANGED nonCardVars
    \/ /\ \E download \in BOOLEAN : Len(blobs) < MaxBlobs /\ handleViewPDF(download)
       /\ UNCHANGED nonCardVars
    \/ /\ \E opened \in BOOLEAN : extractSettled(opened)
       /\ UNCHANGED nonCardVars
    \/ unmount /\ UNCHANGED nonCardVars
    \/ /\ \E blobUrl \in 1..MaxBlobs : timerFires(blobUrl)
       /\ UNCHANGED nonCardVars
    \/ tick /\ UNCHANGED nonCardVars

SpecCard == CardMountedInit /\ [][CardNext]_vars

\* the page stays open: time passes and due timers run
TimePasses ==
    /\ tick \/ \E blobUrl \in 1..MaxBlobs : timerFires(blobUrl)
    /\ UNCHANGED nonCardVars

SpecCardTimers == SpecCard /\ WF_vars(TimePasses)

(***************************************************************************)
(* The filename contract, stated on the names themselves                   *)
(***************************************************************************)
\* name is DDMMYYYY_TYPE.txt for the type t: eight digits, "_", t, ".txt"
HasGrammar(name, t) ==
    /\ Len(name) = 8 + 1 + Len(TypeChars(t)) + 4
    /\ \A i \in 1..8 : name[i] \in Digits
    /\ name[9] = "_"
    /\ \A i \in 1..Len(TypeChars(t)) : name[9 + i] = TypeChars(t)[i]
    /\ \A i \in 1..4 : name[Len(name) - 4 + i] = DotTxt[i]

WellFormed(name) == \E t \in FileTypes : HasGrammar(name, t)

TypeOf(name) == CHOOSE t \in FileTypes : HasGrammar(name, t)

\* (i) every name follows the grammar
AllWellFormed(f) == \A k \in FileKeys : WellFormed(f[k])

\* (ii) the three date tokens are identical
SameDateToken(f) ==
    \A k \in FileKeys : \A i \in 1..8 : f[k][i] = f.file1[i]

\* (iii) the three types are pairwise distinct and are exactly AA, AC, AC_EXT
TypesCover(f) ==
    /\ TypeOf(f.file1) # TypeOf(f.file2)
    /\ TypeOf(f.file1) # TypeOf(f.file3)
    /\ TypeOf(f.file2) # TypeOf(f.file3)
    /\ {TypeOf(f[k]) : k \in FileKeys} = FileTypes

\* (iv) the components of the date token of file1 are a day, a month, a year
DayOk(f) == \E d \in 1..31 : SubSeq(f.file1, 1, 2) = Pad2(d)

MonthOk(f) == \E m \in 1..12 : SubSeq(f.file1, 3, 4) = Pad2(m)

YearOk(f) == \E y \in 2000..2100 : SubSeq(f.file1, 5, 8) = Pad4(y)

Acceptable(f) ==
    /\ AllWellFormed(f)
    /\ SameDateToken(f)
    /\ TypesCover(f)
    /\ DayOk(f) /\ MonthOk(f) /\ YearOk(f)

Triplet(a, b, c) == [file1 |-> a, file2 |-> b, file3 |-> c]

ExampleAccepted ==
    Triplet(FileName(DateToken(1, 7, 2024), "AA"),
            FileName(DateToken(1, 7, 2024), "AC"),
            FileName(DateToken(1, 7, 2024), "AC_EXT"))

ExampleDateMismatch ==
    Triplet(FileName(DateToken(1, 7, 2024), "AA"),
            FileName(DateToken(2, 7, 2024), "AC"),
            FileName(DateToken(1, 7, 2024), "AC_EXT"))

Validated == validationResult # Null

\* C1: for any three selected names, validateFiles reports valid if and only
\* if every name follows DDMMYYYY_TYPE.txt, the date tokens are identical, the
\* types are exactly AA, AC, AC_EXT, and day, month, year are in 1..31, 1..12,
\* 2000..2100; the documented examples are accepted and rejected as stated.
C1_ValidIffAcceptable ==
    Validated =>
        /\ validationResult.valid <=> Acceptable(files)
        /\ files = ExampleAccepted => validationResult.valid
        /\ files = ExampleDateMismatch => ~validationResult.valid
        /\ (\E k \in FileKeys : files[k] = IsoName) => ~validationResult.valid

C1_Witness ==
    /\ Validated
    /\ validationResult.valid
    /\ files = ExampleAccepted

\* the first violated constraint, in the order format of file1, file2, file3,
\* date mismatch, types, day, month, year
FirstViolation(f) ==
    IF ~WellFormed(f.file1) THEN <<"Invalid filename format", f.file1>>
    ELSE IF ~WellFormed(f.file2) THEN <<"Invalid filename format", f.file2>>
    ELSE IF ~WellFormed(f.file3) THEN <<"Invalid filename format", f.file3>>
    ELSE IF ~SameDateToken(f) THEN <<"Date mismatch">>
    ELSE IF ~TypesCover(f) THEN <<"Missing or duplicate file types">>
    ELSE IF ~DayOk(f) THEN <<"Invalid day">>
    ELSE IF ~MonthOk(f) THEN <<"Invalid month">>
    ELSE IF ~YearOk(f) THEN <<"Invalid year">>
    ELSE <<"none">>

\* C2: an invalid triplet yields one message, and it names the first violated
\* constraint in the order format (file1, file2, file3), date mismatch, types,
\* day, month, year; a format message names the first malformed file.
C2_FirstViolationReported ==
    (Validated /\ ~validationResult.valid) =>
        /\ validationResult.kind = FirstViolation(files)[1]
        /\ validationResult.kind = "Invalid filename format"
               => validationResult.detail = FirstViolation(files)[2]

\* two constraints are violated at once and the earlier one is reported
C2_Witness ==
    /\ Validated
    /\ AllWellFormed(files)
    /\ ~SameDateToken(files)
    /\ ~TypesCover(files)
    /\ ~DayOk(files)
    /\ validationResult.kind = "Date mismatch"

\* C3: an upload request is in flight only for three selected files that
\* satisfy the filename contract, whatever selections, submits and uploads
\* came before.
C3_UploadOnlyValidated ==
    request # NoRequest =>
        /\ request.file1 # NoFile /\ request.file2 # NoFile /\ request.file3 # NoFile
        /\ Acceptable(Triplet(request.file1, request.file2, request.file3))
        /\ validateFiles(request.file1, request.file2, request.file3).valid

\* an upload is in flight while the selection has been changed to a triplet
\* that fails validation
C3_Witness ==
    /\ request # NoRequest
    /\ Validated
    /\ ~validationResult.valid
    /\ uploadedReport = Null

(***************************************************************************)
(* The classifier contract                                                 *)
(***************************************************************************)
Called == call # NoCall

\* the invocation had a present value and found a range configured
Evaluated == Called /\ call.value.tag = "number" /\ call.ranges # NoRanges

lower == call.ranges[1]

upper == call.ranges[2]

v == call.value.n

\* C4: with a present value and a configured range (lower, upper) the color
\* is green if and only if lower <= value <= upper, both bounds included.
C4_GreenIffWithinRange ==
    Evaluated =>
        /\ call.color = "green" <=> (lower <= v /\ v <= upper)
        /\ (v = lower \/ v = upper) => call.color = "green"

\* a value on the upper bound of a proper interval was classified
C4_Witness ==
    /\ Evaluated
    /\ lower < upper
    /\ v = upper
    /\ call.color = "green"

\* C5: with a present value and a configured range the color is red if and
\* only if value < 0.5*lower or value > 1.5*upper, yellow in every other case
\* that is not within the range, and exactly one of the three verdicts applies.
C5_RedIffCritical ==
    Evaluated =>
        LET normal == lower <= v /\ v <= upper
            critical == 2 * v < lower \/ 2 * v > 3 * upper
        IN  /\ call.color \in {"green", "yellow", "red"}
            /\ call.color = "red" <=> critical
            /\ call.color = "yellow" <=> (~normal /\ ~critical)
            /\ ~(normal /\ critical)

\* a value exactly on 1.5*upper was classified: out of range, not critical
C5_Witness ==
    /\ Evaluated
    /\ upper > 0
    /\ 2 * v = 3 * upper
    /\ call.color = "yellow"

\* C6: an absent value (null or undefined) and a compound without a range
\* for the tier both give the color none, never green, yellow or red.
C6_NoneWhenAbsent ==
    Called =>
        /\ call.value \in {Null, Undefined} => call.color = "none"
        /\ call.ranges = NoRanges => call.color = "none"
        /\ call.color = "none" => (call.value \in {Null, Undefined} \/ call.ranges = NoRanges)

\* a number was classified for a compound that has no range in the tier, on
\* loaded data
C6_Witness ==
    /\ Called
    /\ processedData # Null
    /\ call.value.tag = "number"
    /\ call.ranges = NoRanges
    /\ call.color = "none"

\* C7: two successive invocations that read the same (lower, upper) range
\* and the same value return the same color, whatever the compound and the
\* tier of each and whatever was classified before.
C7_SameInputsSameColor ==
    [][(Called /\ call' # NoCall /\ call'.ranges = call.ranges
        /\ call'.value = call.value) => call'.color = call.color]_vars

\* the same range and value were classified for two different compounds or
\* tiers, outside the range
C7_Witness ==
    /\ repeated
    /\ Evaluated
    /\ call.color \in {"yellow", "red"}

(***************************************************************************)
(* The analyser contracts                                                  *)
(***************************************************************************)
BatchDone == batchResult # Null

\* how often a report of the document with this path occurs in a list
Occurrences(reports, path) ==
    Cardinality({i \in DOMAIN reports : reports[i].file_name = path})

FailedOccurrences(failures, path) ==
    Cardinality({i \in DOMAIN failures : failures[i].path = path})

Readable == {i \in DOMAIN docs : docs[i].readable}

Unreadable == {i \in DOMAIN docs : ~docs[i].readable}

\* C8: in the result of a batch, total = successful + failed, successful =
\* len(normal_reports) + len(abnormal_reports), abnormal =
\* len(abnormal_reports), and every analysed document is listed exactly once
\* by the dashboard, in the bucket of its summary status.
C8_BatchCounts ==
    BatchDone =>
        LET b == batchResult
        IN  /\ b.total = b.successful + b.failed
            /\ b.successful = Len(b.normal_reports) + Len(b.abnormal_reports)
            /\ b.abnormal = Len(b.abnormal_reports)
            /\ Len(allReports(b)) = b.successful
            /\ \A i \in Readable :
                  /\ Occurrences(allReports(b), docs[i].path) = 1
                  /\ Occurrences(b.normal_reports, docs[i].path)
                       + Occurrences(b.abnormal_reports, docs[i].path) = 1
            /\ \A i \in DOMAIN b.normal_reports :
                  b.normal_reports[i].summary.status = "normal"
            /\ \A i \in DOMAIN b.abnormal_reports :
                  b.abnormal_reports[i].summary.status = "abnormal"

\* a finished batch with a normal, an abnormal and a failed document
C8_Witness ==
    /\ BatchDone
    /\ batchResult.failed > 0
    /\ batchResult.normal > 0
    /\ batchResult.abnormal > 0

\* the documents of the archive that can be read, in their order
ReadableDocs == SelectSeq(docs, LAMBDA d : d.readable)

\* the positions of a list are in the order of the archive
InArchiveOrder(paths) ==
    \A i \in DOMAIN paths : \A j \in DOMAIN paths : i < j => paths[i] < paths[j]

\* C9: every document of a batch is processed, in order; a failing document
\* leaves exactly one (path, error) entry in the failures list, shown once in
\* the Unprocessed Reports section, and the other documents get the results
\* they get in a batch without the failing ones.
C9_FailureIsolation ==
    BatchDone =>
        LET b == batchResult
            alone == runBatch(EmptyBatch, ReadableDocs)
            shown == unprocessedShown(b, "failed")
        IN  /\ idx = Len(docs)
            /\ b.successful + b.failed = Len(docs)
            /\ Len(b.failed_reports) = Cardinality(Unreadable)
            /\ \A i \in Unreadable :
                  /\ FailedOccurrences(b.failed_reports, docs[i].path) = 1
                  /\ FailedOccurrences(shown, docs[i].path) = 1
            /\ \A i \in Readable :
                  FailedOccurrences(b.failed_reports, docs[i].path) = 0
            /\ InArchiveOrder([i \in DOMAIN b.failed_reports |-> b.failed_reports[i].path])
            /\ InArchiveOrder([i \in DOMAIN b.normal_reports |-> b.normal_reports[i].file_name])
            /\ InArchiveOrder([i \in DOMAIN b.abnormal_reports |-> b.abnormal_reports[i].file_name])
            /\ b.normal_reports = alone.normal_reports
            /\ b.abnormal_reports = alone.abnormal_reports
            /\ \A i \in Readable :
                  \E j \in DOMAIN allReports(b) :
                      allReports(b)[j] = analyzeDocument(docs[i])

\* a failing document stood between two readable ones, and the dashboard
\* shows the failures
C9_Witness ==
    /\ BatchDone
    /\ Len(docs) = 3
    /\ docs[1].readable /\ ~docs[2].readable /\ docs[3].readable
    /\ activeTab = "failed"
    /\ Len(unprocessedShown(batchResult, activeTab)) = 1

Analysed == analysisResult # Null

\* C10: in every analysis result the status is normal if and only if the
\* abnormalities list is empty, abnormal if and only if it has an entry,
\* abnormal_count is its length, and the page shows "All Clear!" exactly with
\* the NORMAL status.
C10_StatusMatchesAbnormalities ==
    Analysed =>
        LET r == analysisResult
        IN  /\ r.summary.status = "normal" <=> Len(r.abnormalities) = 0
            /\ r.summary.status = "abnormal" <=> Len(r.abnormalities) >= 1
            /\ r.summary.abnormal_count = Len(r.abnormalities)
            /\ AllClearShown(r) <=> NormalIconShown(r)
            /\ Len(r.abnormalities) =
                  Cardinality({i \in DOMAIN doc.tests : IsAbnormal(doc.tests[i])})

\* a document with a normal and two abnormal measurements was analysed
C10_Witness ==
    /\ Analysed
    /\ Len(analysisResult.abnormalities) = 2
    /\ analysisResult.summary.total_tests = 3
    /\ analysisResult.summary.status = "abnormal"

(***************************************************************************)
(* The uploader contract, stated on the file names and sizes               *)
(***************************************************************************)
\* the name ends in a dot followed by the letters of ext, in either case
EndsWithDot(name, ext) ==
    /\ Len(name) >= Len(ext) + 1
    /\ name[Len(name) - Len(ext)] = "."
    /\ \A i \in 1..Len(ext) :
          LowerChar(name[Len(name) - Len(ext) + i]) = ext[i]

IsPdfFile(file) == EndsWithDot(file.name, <<"p", "d", "f">>)

IsZipFile(file) == EndsWithDot(file.name, <<"z", "i", "p">>)

WithinCap(file) ==
    \/ IsPdfFile(file) /\ file.size <= 50 * 1024 * 1024
    \/ IsZipFile(file) /\ file.size <= 200 * 1024 * 1024

HasDot(file) == \E i \in 1..Len(file.name) : file.name[i] = "."

\* C11: a file offered to the uploader is accepted if and only if its
\* extension is pdf or zip and its size is at or below the cap of its type
\* (50 MB for a PDF, 200 MB for a ZIP); the selected file and the file passed
\* to onFileSelect are always accepted ones.
C11_UploadCaps ==
    /\ offered # Null => (offered.error = Null <=> WithinCap(offered.file))
    /\ selectedFile # Null => WithinCap(selectedFile)
    /\ passed # Null => WithinCap(passed)

\* the same statement for the names that contain a dot
C11_UploadCapsDottedNames ==
    /\ (offered # Null /\ HasDot(offered.file))
          => (offered.error = Null <=> WithinCap(offered.file))
    /\ (selectedFile # Null /\ HasDot(selectedFile)) => WithinCap(selectedFile)
    /\ (passed # Null /\ HasDot(passed)) => WithinCap(passed)

\* a file without an extension was accepted and handed to the page
C11_Witness ==
    /\ passed # Null
    /\ ~HasDot(passed)

(***************************************************************************)
(* The upload boundary and the saved members                               *)
(***************************************************************************)
FieldsNamed(form, name) == {i \in 1..Len(form) : form[i].name = name}

FileFields(form) == {i \in 1..Len(form) : form[i].kind = "file"}

\* C12: every upload request carries exactly three files, as file1, file2 and
\* file3, and exactly one uploader identifier; while the user has not typed or
\* selected a name since the page was loaded, the identifier is "anonymous".
C12_UploadBoundary ==
    request # NoRequest =>
        /\ Cardinality(FileFields(request.formData)) = 3
        /\ \A k \in FileKeys :
              /\ Cardinality(FieldsNamed(request.formData, k)) = 1
              /\ \A i \in FieldsNamed(request.formData, k) :
                    /\ request.formData[i].kind = "file"
                    /\ request.formData[i].value # NoFile
        /\ Cardinality(FieldsNamed(request.formData, "uploaded_by")) = 1
        /\ \A i \in FieldsNamed(request.formData, "uploaded_by") :
              /\ request.formData[i].kind = "string"
              /\ ~nameChosen => request.formData[i].value = "anonymous"

\* an upload is in flight from a page that shows saved members and on which
\* no name was typed or selected
C12_Witness ==
    /\ request # NoRequest
    /\ ~nameChosen
    /\ Len(members) > 0

\* what the load effect would restore from the stored item
Restored == IF storage # Null THEN parse(storage) ELSE <<>>

\* C15: the stored members list always equals the list shown, so that
\* loading the page again restores exactly the list that was last shown.
C15_ReloadRestoresShown == Restored = members

\* the last saved member was removed: the page shows no member while the
\* stored list still holds one
C15_Witness ==
    /\ members = <<>>
    /\ storage # Null
    /\ Len(parse(storage)) > 0

(***************************************************************************)
(* The review contracts                                                    *)
(***************************************************************************)
ApproveSent == pending # NoCall /\ pending.tag = "approveReport"

\* the cells (row id, compound) whose keys are in a set of cell keys
CellsOf(keys) ==
    {cell \in RowIds \X GridFields : cellKey(cell[1], cell[2]) \in keys}

\* the current value of a cell in the rows of the grid
CurrentValue(rows, cell) == rows[cell[1] + 1].value[cell[2]]

HasHyphen(compound) == \E i \in 1..Len(Chars(compound)) : Chars(compound)[i] = "-"

\* C13: the edited-data payload of an approval has exactly one entry for
\* every cell in editedCells, under that cell's key (row id and compound
\* name), and the entry is the cell's current value.
C13_PayloadHasEveryEdit ==
    ApproveSent =>
        /\ DOMAIN pending.editedData = pending.cells
        /\ \A cell \in CellsOf(pending.cells) :
              pending.editedData[cellKey(cell[1], cell[2])]
                  = CurrentValue(pending.rows, cell).n

\* the same statement for the compounds whose name has no hyphen
C13_PayloadHasEveryPlainEdit ==
    ApproveSent =>
        /\ \A cell \in CellsOf(pending.cells) :
              ~HasHyphen(cell[2]) =>
                  /\ cellKey(cell[1], cell[2]) \in DOMAIN pending.editedData
                  /\ pending.editedData[cellKey(cell[1], cell[2])]
                        = CurrentValue(pending.rows, cell).n
        /\ DOMAIN pending.editedData \subseteq pending.cells

\* an approval was sent after an edit of a compound whose name has a hyphen
C13_Witness ==
    /\ ApproveSent
    /\ \E cell \in CellsOf(pending.cells) : HasHyphen(cell[2])

(***************************************************************************)
(* The health line contract                                                *)
(***************************************************************************)
Loading == status = "checking..."

ErrorShown == status = "backend not reachable"

HealthyShown == status \in {"healthy", "ok"}

\* the status changed without a new page load
StatusMoved == status' # status /\ loads' = loads

TierTable(ranges, isControl1, isControl2, isRatio) ==
    CASE isRatio -> ranges.ratios
      [] ~isRatio /\ isControl1 -> ranges.control_1
      [] ~isRatio /\ ~isControl1 /\ isControl2 -> ranges.control_2
      [] OTHER -> ranges.patient

\* the entry of a table for a compound, <<>> when the table or the entry is
\* missing
EntryOf(table, compound) ==
    IF table = Undefined THEN <<>>
    ELSE IF compound \in DOMAIN table THEN table[compound] ELSE <<>>

CallTierEntry ==
    EntryOf(TierTable(call.data.reference_ranges, call.isControl1,
                      call.isControl2, call.isRatio),
            call.compound)

\* C16: the range applied by a classification is the entry of the ratio table
\* when the cell is a ratio, otherwise of the control-1 table for a control-1
\* row, otherwise of the control-2 table for a control-2 row, otherwise of the
\* patient table; the color depends on that one entry only (none without it).
C16_TierSelection ==
    (Called /\ call.data # Null) =>
        /\ call.ranges = CallTierEntry
        /\ (CallTierEntry = <<>>) => call.color = "none"
        /\ (CallTierEntry # <<>> /\ call.value.tag = "number") =>
              call.color = ColorInRange(call.value.n, CallTierEntry[1],
                                        CallTierEntry[2])

\* a ratio cell of a control-1 row was classified with the ratio entry, which
\* differs from the control-1 entry of the same compound
C16_Witness ==
    /\ Called /\ call.data # Null
    /\ call.isRatio /\ call.isControl1
    /\ call.ranges # <<>>
    /\ call.ranges # EntryOf(call.data.reference_ranges.control_1, call.compound)
    /\ call.value.tag = "number"

(***************************************************************************)
(* The edit contracts of the review grid                                   *)
(***************************************************************************)
GridCells == {cell \in RowIds \X GridFields :
                 /\ cell[1] + 1 <= Len(rowData)
                 /\ cell[2] \in DOMAIN rowData[cell[1] + 1].value}

\* the text or number handed over parses to a number and is not the very
\* value the cell held
ValidEdit(cell, newValue) ==
    /\ parseFloat(newValue) # NaN
    /\ newValue # CurrentValue(rowData, cell)

\* a column is a ratio when the ratio table has its range
IsRatioColumn(compound) ==
    compound \in DOMAIN processedData.reference_ranges.ratios

\* the classifier's color for a value against the range of the cell's tier
TierColor(cell, value, isRatio) ==
    LET row   == rowData[cell[1] + 1]
        entry == EntryOf(TierTable(processedData.reference_ranges,
                                   row.isControl1, row.isControl2, isRatio),
                         cell[2])
    IN  IF entry = <<>> THEN "none"
        ELSE ColorInRange(value.n, entry[1], entry[2])

OthersUnchanged(cell) ==
    \A other \in GridCells \ {cell} :
        /\ rowData'[other[1] + 1].value[other[2]]
              = rowData[other[1] + 1].value[other[2]]
        /\ rowData'[other[1] + 1].color[other[2]]
              = rowData[other[1] + 1].color[other[2]]

\* this step is a cell-editing-stopped event
Edited == lastEdit' # lastEdit

\* the cell and the editor value of the event of this step
EditedCell == <<lastEdit'.id, lastEdit'.field>>

EditedTo == lastEdit'.newValue

\* C17: after a valid numeric edit of a compound cell the row holds the new
\* number, the cell's key is in editedCells, the stored color is the
\* classifier's result for the new number against the range of the cell's
\* tier (the ratio range for a ratio column, otherwise the range of the row's
\* tier), and no other cell's value or color has changed.
C17_EditUpdatesCell ==
    [][(Edited /\ ValidEdit(EditedCell, EditedTo)) =>
          /\ CurrentValue(rowData', EditedCell) = parseFloat(EditedTo)
          /\ editedCells' = editedCells \cup {cellKey(EditedCell[1], EditedCell[2])}
          /\ rowData'[EditedCell[1] + 1].color[EditedCell[2]]
                = TierColor(EditedCell, parseFloat(EditedTo),
                            IsRatioColumn(EditedCell[2]))
          /\ OthersUnchanged(EditedCell)]_vars

\* the same statement with the range of the row's tier for every column
C17_EditUpdatesCellRowTier ==
    [][(Edited /\ ValidEdit(EditedCell, EditedTo)) =>
          /\ CurrentValue(rowData', EditedCell) = parseFloat(EditedTo)
          /\ editedCells' = editedCells \cup {cellKey(EditedCell[1], EditedCell[2])}
          /\ rowData'[EditedCell[1] + 1].color[EditedCell[2]]
                = TierColor(EditedCell, parseFloat(EditedTo), FALSE)
          /\ OthersUnchanged(EditedCell)]_vars

\* a ratio cell was edited to a number inside the ratio range, and its stored
\* color is not green
C17_Witness ==
    \E cell \in GridCells :
        /\ lastEdit # NoCall
        /\ cell = <<lastEdit.id, lastEdit.field>>
        /\ lastEdit.newValue = Num(2)
        /\ IsRatioColumn(cell[2])
        /\ cellKey(cell[1], cell[2]) \in editedCells
        /\ CurrentValue(rowData, cell) = Num(2)
        /\ TierColor(cell, Num(2), TRUE) = "green"
        /\ rowData[cell[1] + 1].color[cell[2]] # "green"

\* C18: an edit whose text does not parse to a number leaves the cell's value
\* and color as they were, adds nothing to editedCells, and changes no other
\* part of the review state.
C18_RejectedEditChangesNothing ==
    [][(Edited /\ parseFloat(EditedTo) = NaN) =>
          UNCHANGED <<rowData, editedCells, approving, showConfirmDialog,
                      pending, location, lastAlert, trail, processedData>>]_vars

\* the last event was a rejected edit of a cell that had been edited before,
\* or of a cell without a value
C18_Witness ==
    /\ lastEdit # NoCall
    /\ parseFloat(lastEdit.newValue) = NaN
    /\ \/ cellKey(lastEdit.id, lastEdit.field) \in editedCells
       \/ CurrentValue(rowData, <<lastEdit.id, lastEdit.field>>) = Undefined

\* the value and the color the processed data holds for a cell
LoadedValue(cell) ==
    LET row == processedData.processed_data[cell[1] + 1]
    IN  IF cell[2] \in DOMAIN row.values THEN row.values[cell[2]].value
        ELSE Undefined

LoadedColor(cell) ==
    LET row == processedData.processed_data[cell[1] + 1]
    IN  IF cell[2] \in DOMAIN row.values THEN row.values[cell[2]].color
        ELSE "none"

\* this step is a run of handleResetChanges
ResetDone == editedCells # {} /\ editedCells' = {}

\* C19: after any edits, handleResetChanges leaves every cell with the value
\* and the color loaded from the processed data and empties editedCells; an
\* edit never modifies the processed data or its reference ranges.
C19_ResetRestoresLoaded ==
    [][/\ ResetDone =>
             /\ Len(rowData') = Len(processedData.processed_data)
             /\ \A cell \in GridCells :
                   /\ CurrentValue(rowData', cell) = LoadedValue(cell)
                   /\ rowData'[cell[1] + 1].color[cell[2]] = LoadedColor(cell)
       /\ (Edited \/ ResetDone) => processedData' = processedData]_vars

\* the grid was reset after an accepted edit that had changed a color
C19_Witness ==
    /\ lastEdit # NoCall
    /\ lastEdit.newValue = Text("9")
    /\ editedCells = {}
    /\ CurrentValue(rowData, <<lastEdit.id, lastEdit.field>>)
          = LoadedValue(<<lastEdit.id, lastEdit.field>>)
    /\ LoadedColor(<<lastEdit.id, lastEdit.field>>) \in {"green", "yellow"}

(***************************************************************************)
(* The approval contract                                                   *)
(***************************************************************************)
\* this step adds the named call to the calls of handleApprove
Requested(name) == trail' = Append(trail, name)

\* this step ends a run of handleApprove
RunEnds == pending # NoCall /\ pending' = NoCall

\* the run that ends in this step ends in the catch block
RunFails == RunEnds /\ lastAlert' = "Failed to approve report and generate PDF"

\* C20: the PDF download is requested only when the approve request has
\* succeeded, and the navigation to the upload page happens only when the
\* download has succeeded; when approve or download fails no later call is
\* made and the route stays the review page; and whenever a run of
\* handleApprove ends, the approving flag is false again.
C20_ApprovalOrdering ==
    [][/\ Requested("downloadPDF") =>
             /\ trail = <<"approveReport">>
             /\ pending.tag = "approveReport"
             /\ ~RunFails
       /\ Requested("navigate") =>
             /\ trail = <<"approveReport", "downloadPDF">>
             /\ pending.tag = "downloadPDF"
             /\ ~RunFails
       /\ location' # location =>
             \/ Requested("navigate")
             \/ ~approving
       /\ RunFails =>
             /\ trail' = trail
             /\ location' = "/review"
       /\ RunEnds => ~approving'
       /\ approving' <=> pending' # NoCall]_vars

\* the download failed after the approve request had succeeded: the user is
\* on the review page, nothing was navigated, and the flag is false again
C20_Witness ==
    /\ trail = <<"approveReport", "downloadPDF">>
    /\ pending = NoCall
    /\ lastAlert = "Failed to approve report and generate PDF"
    /\ location = "/review"
    /\ ~approving

(***************************************************************************)
(* The analyser page contracts                                             *)
(***************************************************************************)
\* the last characters of a name, lower-cased, are those of the extension
NameEndsIn(name, extension) ==
    /\ Len(name) >= Len(extension)
    /\ \A k \in 1..Len(extension) :
          LowerChar(name[Len(name) - Len(extension) + k]) = extension[k]

InvalidTypeShown ==
    analysisError = Msg("Invalid file type. Please upload a PDF or ZIP file.")

\* C21: for the file last handed to handleFileSelect, exactly one request was
\* sent, to the single-document endpoint, when its name ends with .pdf in any
\* letter case; exactly one, to the batch endpoint, when it ends with .zip;
\* and for any other name no request was sent and the error is the
\* 'Invalid file type' text.
C21_FileTypeRouting ==
    uploadedFileName # <<>> =>
        IF NameEndsIn(uploadedFileName, <<".", "p", "d", "f">>)
        THEN /\ Len(sent) = 1
             /\ sent[1].endpoint = "analyze-pdf"
             /\ sent[1].file.name = uploadedFileName
        ELSE IF NameEndsIn(uploadedFileName, <<".", "z", "i", "p">>)
        THEN /\ Len(sent) = 1
             /\ sent[1].endpoint = "analyze-batch"
             /\ sent[1].file.name = uploadedFileName
        ELSE /\ sent = <<>>
             /\ inflight = <<>>
             /\ InvalidTypeShown

\* a file whose name has neither ending was handed over
C21_Witness ==
    /\ uploadedFileName # <<>>
    /\ ~NameEndsIn(uploadedFileName, <<".", "p", "d", "f">>)
    /\ ~NameEndsIn(uploadedFileName, <<".", "z", "i", "p">>)
    /\ InvalidTypeShown

\* a file whose name ends with .PDF in capitals is being analysed
C21_WitnessCapitals ==
    /\ uploadedFileName = <<"A", ".", "P", "D", "F">>
    /\ Len(inflight) = 1
    /\ inflight[1].endpoint = "analyze-pdf"

\* how many of analysisResult, batchResult and error are not null
Outcomes ==
    (IF analysisResult # Null THEN 1 ELSE 0)
    + (IF batchResult # Null THEN 1 ELSE 0)
    + (IF analysisError # Null THEN 1 ELSE 0)

\* the request settled with a response whose success is false
RefusalSettled ==
    /\ settled # Null
    /\ "success" \in DOMAIN settled
    /\ ~settled.success

AtMostOneResult == ~(analysisResult # Null /\ batchResult # Null)

RefusalSetsNoResult ==
    RefusalSettled => (analysisResult = Null /\ batchResult = Null)

\* C22: at most one of analysisResult and batchResult is non-null; whenever
\* isAnalyzing is false after a handleFileSelect, exactly one of
\* analysisResult, batchResult and error is non-null; a response with
\* success = false sets no result.
C22_OutcomeExclusivity ==
    /\ AtMostOneResult
    /\ (~isAnalyzing /\ (uploadedFileName # <<>> \/ settled # Null)) => Outcomes = 1
    /\ RefusalSetsNoResult

\* an analysis completed with a response that carries a result and says
\* success = false, and the page shows the error
C22_Witness ==
    /\ RefusalSettled
    /\ settled.result # Undefined
    /\ ~isAnalyzing
    /\ analysisError # Null

\* C23: at most one analysis request is awaited at any time; isAnalyzing is
\* true exactly while one is awaited, so an invalid file type leaves it false
\* and every settling of the request (a result, a success = false response,
\* a thrown error) sets it to false; and when the awaited request settles,
\* isAnalyzing eventually is false.
C23_AnalysisEnds ==
    /\ [](Len(inflight) <= 1)
    /\ [](isAnalyzing <=> inflight # <<>>)
    /\ (isAnalyzing ~> ~isAnalyzing)

\* the awaited request failed with a thrown error and the spinner is gone
C23_Witness ==
    /\ settled # Null
    /\ "code" \in DOMAIN settled
    /\ inflight = <<>>
    /\ ~isAnalyzing

(***************************************************************************)
(* The dashboard contract                                                  *)
(***************************************************************************)
\* the text contains the term when letter case is ignored
ContainsIgnoringCase(text, term) ==
    \E off \in 0..(Len(text) - Len(term)) :
        \A k \in 1..Len(term) : LowerChar(text[off + k]) = LowerChar(term[k])

\* the report's file name or patient name contains the search term
Found(r) ==
    \/ ContainsIgnoringCase(r.file_name, searchTerm)
    \/ /\ r.patient_info.name # Undefined
       /\ ContainsIgnoringCase(r.patient_info.name, searchTerm)

\* the list of the active tab
TabList ==
    CASE activeTab = "abnormal" -> batchResult.abnormal_reports
      [] activeTab = "normal"   -> batchResult.normal_reports
      [] activeTab = "all"      -> batchResult.abnormal_reports
                                     \o batchResult.normal_reports
      [] activeTab = "failed"   -> <<>>

\* C24: for every active tab and search term the report cards shown are the
\* abnormal reports on 'abnormal', the normal reports on 'normal', and the
\* abnormal followed by the normal reports on 'all', restricted to the
\* reports whose file name or patient name contains the search term with
\* letter case ignored, in their original order; on 'failed' no card and the
\* whole failed list is shown; and no change of tab or search alters the
\* batch result.
C24_DashboardProjection ==
    /\ [](batchResult # Null =>
            /\ cardsShown(batchResult, activeTab, searchTerm)
                  = SelectSeq(TabList, Found)
            /\ activeTab = "failed" =>
                  unprocessedShown(batchResult, activeTab)
                      = batchResult.failed_reports)
    /\ [][(activeTab' # activeTab \/ searchTerm' # searchTerm) =>
              batchResult' = batchResult]_vars

\* on the 'all' tab of a batch with three reports the term "ben" leaves the
\* one report whose patient is Ben
C24_Witness ==
    /\ batchResult # Null
    /\ Len(batchResult.abnormal_reports) = 2
    /\ Len(batchResult.normal_reports) = 1
    /\ activeTab = "all"
    /\ searchTerm = <<"b", "e", "n">>
    /\ cardsShown(batchResult, activeTab, searchTerm) = <<AbnormalReportA>>

(***************************************************************************)
(* The ZIP extraction contract                                             *)
(***************************************************************************)
\* the positions of the file entries named exactly as requested
ExactEntries(zipFile, pdfFileName) ==
    {i \in 1..Len(zipFile.files) :
        zipFile.files[i].name = pdfFileName /\ ~zipFile.files[i].dir}

SameIgnoringCaseAndSlashes(a, b) ==
    /\ Len(a) = Len(b)
    /\ \A k \in 1..Len(a) :
          \/ a[k] \in {"/", "\\"} /\ b[k] \in {"/", "\\"}
          \/ LowerChar(a[k]) = LowerChar(b[k])

\* ... and of those named so up to letter case and the kind of slash
LooseEntries(zipFile, pdfFileName) ==
    {i \in 1..Len(zipFile.files) :
        /\ SameIgnoringCaseAndSlashes(zipFile.files[i].name, pdfFileName)
        /\ ~zipFile.files[i].dir}

MatchingEntries(zipFile, pdfFileName) ==
    IF ExactEntries(zipFile, pdfFileName) # {}
        THEN ExactEntries(zipFile, pdfFileName)
        ELSE LooseEntries(zipFile, pdfFileName)

FirstOf(S) == CHOOSE i \in S : \A j \in S : i <= j

\* C25: extractPDFFromZip never throws. It returns null when no ZIP file is
\* given, when loading the archive fails, when no entry matches, or when
\* extracting the matching entry fails; otherwise it returns a blob URL of
\* the matching entry. An entry matches when its name equals the requested
\* name exactly or, when no entry does, equals it ignoring letter case and
\* taking backslashes for forward slashes (the first such entry is taken).
C25_ExtractNeverThrows ==
    extracted # Null =>
        LET zipFile == extracted.zipFile
            pdfFileName == extracted.pdfFileName
            result == extracted.result
            noMatch == MatchingEntries(zipFile, pdfFileName) = {}
            entry == FirstOf(MatchingEntries(zipFile, pdfFileName))
        IN  /\ result # Thrown
            /\ result = Null <=>
                  \/ zipFile = Null
                  \/ ~zipFile.loads
                  \/ noMatch
                  \/ ~zipFile.files[entry].readable
            /\ result # Null => result = BlobUrl(entry)

\* an archive that loads, has no entry of the exact name and has one that
\* differs in case and slashes: that entry's blob URL is returned
C25_Witness ==
    /\ extracted # Null
    /\ extracted.zipFile # Null
    /\ extracted.zipFile.loads
    /\ extracted.pdfFileName = Chars("d\\a.pdf")
    /\ ExactEntries(extracted.zipFile, extracted.pdfFileName) = {}
    /\ extracted.result # Null
    /\ extracted.zipFile.files[extracted.result.entry].name = Chars("d/a.pdf")

(***************************************************************************)
(* The blob URL contract of the batch report card                          *)
(***************************************************************************)
Created(u) == u <= Len(blobs)

RevokedOnce(u) == Created(u) /\ blobs[u].revoked = 1

\* the URL went to link.click() or to window.open(), which may have
\* returned no window
Handed(u) == blobs[u].handed \in {"download", "window", "blocked"}

\* C26: every blob URL a View or Download PDF run of the card creates is
\* handed to the browser in the run that creates it, is revoked at most once
\* and not before it was handed over, the revocation comes 60 s after a view
\* (pop-up blocked or not) and 5 s after a download, and every such URL is
\* eventually revoked.
C26_BlobUrlLifecycle ==
    /\ [](\A u \in 1..Len(blobs) :
             /\ Handed(u)
             /\ blobs[u].revoked <= 1
             /\ blobs[u].revoked = 0 => blobs[u].timer # 0
             /\ blobs[u].revoked = 1 =>
                   /\ blobs[u].timer = 0
                   /\ blobs[u].revokedAt =
                         IF blobs[u].handed = "download" THEN 5000 ELSE 60000)
    /\ \A u \in 1..MaxBlobs : Created(u) ~> RevokedOnce(u)

\* a view whose pop-up was blocked and a download, both revoked
C26_Witness ==
    \E u, w \in 1..Len(blobs) :
        /\ blobs[u].handed = "blocked" /\ RevokedOnce(u)
        /\ blobs[w].handed = "download" /\ RevokedOnce(w)

(***************************************************************************)
(* The failed-upload contract of the upload page                           *)
(***************************************************************************)
\* the step in which the awaited uploadReport call rejected
UploadFails ==
    /\ submitted' # submitted
    /\ submitted' # <<>>
    /\ submitted'[Len(submitted')] = "rejected"

\* C27: a run of handleSubmit calls uploadReport at most once, and a call
\* that rejected is not followed by another one of the same run; the step in
\* which the call rejects sets the error message, records no uploaded
\* report, keeps the selected files, and sets isUploading to false with no
\* request left in flight.
C27_FailedUploadIsTerminal ==
    /\ [](submitted \in {<<>>, <<"uploadReport">>,
                         <<"uploadReport", "resolved">>,
                         <<"uploadReport", "rejected">>})
    /\ [](request # NoRequest <=> submitted = <<"uploadReport">>)
    /\ [][UploadFails =>
            /\ error' # Null
            /\ error' # [tag |-> ""]
            /\ uploadedReport' = Null
            /\ files' = files
            /\ isUploading /\ ~isUploading'
            /\ request' = NoRequest]_vars

\* the upload of three valid files failed with the backend's detail: the
\* detail is shown, the three files are still selected and still valid,
\* and nothing is in flight
C27_Witness ==
    /\ submitted = <<"uploadReport", "rejected">>
    /\ error = [tag |-> "Files must have the same date"]
    /\ \A k \in FileKeys : files[k] # NoFile
    /\ validationResult # Null /\ validationResult.valid
    /\ uploadedReport = Null
    /\ ~isUploading
    /\ request = NoRequest

====
